---- MODULE Spec2Model ----
(***************************************************************************)
(* A model of toy-dns-server: the wire codec (src/src/packet), the record  *)
(* store lookup (src/src/zone_config.rs), the reply engine and the serving *)
(* loop (src/src/lib.rs).                                                  *)
(*                                                                         *)
(* Bytes are naturals 0..255, buffers and strings are sequences of bytes   *)
(* (a String is the sequence of its UTF-8 bytes, '.' is 46).               *)
(*                                                                         *)
(* Three specifications share the module:                                  *)
(*   SpecCodec  parse_dns_query / DnsPacket::serialize on input buffers    *)
(*   SpecReply  find_record / construct_reply on stores and queries        *)
(*   Spec       serve, process_udp, process_tcp                            *)
(***************************************************************************)
EXTENDS Integers, Sequences, FiniteSets, TLC

VARIABLES
    cdata,      \* codec: the input buffer b
    cres,       \* codec: the result of parse_dns_query(b)
    cout,       \* codec: the bytes of packet.serialize()
    cpc,        \* codec: "input" -> "parsed" -> "serialized"
    config,     \* the record store (ZoneConfig), zones in iteration order
    query,      \* reply engine: the message handed to construct_reply
    reply,      \* reply engine: what construct_reply returned (an Option)
    calls,      \* reply engine: the find_record calls construct_reply made
    found,      \* store: what a direct find_record call returned
    rpc,        \* reply engine: "idle", "replied", "found"
    spc,        \* serve: "running", or "returned" once it returned an error
    sresult,    \* serve: the error it returned, "none" while running
    recv_buf,   \* serve: the receive buffer shared by all recv_from calls
    tasks,      \* serve: the JoinSet, one record per spawned task
    conns,      \* the accepted stream connections, as the sockets see them:
                \* inbox is what the server has not read yet, outbox what it
                \* wrote, wrote all the bytes the peer wrote
    udp_sent,   \* the datagrams the server's socket sent
    udp_recv    \* the datagrams that arrived at the server's socket

codecVars == <<cdata, cres, cout, cpc>>

replyVars == <<config, query, reply, calls, found, rpc>>

serverVars == <<spc, sresult, recv_buf, tasks, conns, udp_sent, udp_recv>>

vars ==
    <<cdata, cres, cout, cpc, config, query, reply, calls, found, rpc,
      spc, sresult, recv_buf, tasks, conns, udp_sent, udp_recv>>

----------------------------------------------------------------------------
(* Byte and buffer helpers (bytes::Buf / BufMut). *)

DOT == 46

Take(buf, n) == SubSeq(buf, 1, n)

Drop(buf, n) == SubSeq(buf, n + 1, Len(buf))

Shr(b, i) == b \div (2 ^ i)

Bit(b, i) == Shr(b, i) % 2

BoolBit(f) == IF f THEN 1 ELSE 0

get_u16(buf) == buf[1] * 256 + buf[2]

get_u32(buf) == ((buf[1] * 256 + buf[2]) * 256 + buf[3]) * 256 + buf[4]

put_u16(v) == << (v \div 256) % 256, v % 256 >>

put_u32(v) ==
    << (v \div 16777216) % 256, (v \div 65536) % 256, (v \div 256) % 256, v % 256 >>

RECURSIVE Concat(_)
Concat(seqs) == IF seqs = <<>> THEN <<>> ELSE Head(seqs) \o Concat(Tail(seqs))

Ok(v, rest) == [ok |-> TRUE, val |-> v, rest |-> rest, err |-> "none"]

Err(e) == [ok |-> FALSE, val |-> <<>>, rest |-> <<>>, err |-> e]

\* Buf::get_u8 / get_u16 / get_u32 / copy_to_slice panic when fewer bytes
\* remain than they read: such a call neither returns a value nor a ParseError
Panic == [ok |-> FALSE, val |-> <<>>, rest |-> <<>>, err |-> "panic"]

\* reading n bytes from buf reads past its end
Short(buf, n) == Len(buf) < n

----------------------------------------------------------------------------
(* String::from_utf8: the well-formedness of a UTF-8 byte sequence. *)

IsCont(b) == b >= 128 /\ b <= 191

RECURSIVE IsUtf8(_)
IsUtf8(s) ==
    IF s = <<>> THEN TRUE
    ELSE LET b == s[1]
             n == Len(s)
         IN  IF b < 128 THEN IsUtf8(Drop(s, 1))
             ELSE IF b >= 194 /\ b <= 223
                  THEN n >= 2 /\ IsCont(s[2]) /\ IsUtf8(Drop(s, 2))
             ELSE IF b >= 224 /\ b <= 239
                  THEN /\ n >= 3
                       /\ IsCont(s[2]) /\ IsCont(s[3])
                       /\ (b = 224 => s[2] >= 160)
                       /\ (b = 237 => s[2] <= 159)
                       /\ IsUtf8(Drop(s, 3))
             ELSE IF b >= 240 /\ b <= 244
                  THEN /\ n >= 4
                       /\ IsCont(s[2]) /\ IsCont(s[3]) /\ IsCont(s[4])
                       /\ (b = 240 => s[2] >= 144)
                       /\ (b = 244 => s[2] <= 143)
                       /\ IsUtf8(Drop(s, 4))
             ELSE FALSE

----------------------------------------------------------------------------
(* packet/dns_name.rs *)

\* the positions of the separators of a string
DotsOf(s) == { i \in 1..Len(s) : s[i] = DOT }

\* the position of the k-th separator
NthDot(s, k) ==
    CHOOSE p \in DotsOf(s) : Cardinality({ q \in DotsOf(s) : q < p }) = k - 1

\* str::split('.'): the labels of a name, the pieces between separators;
\* "" splits into one empty label.
Split(name) ==
    LET d == Cardinality(DotsOf(name))
    IN  [k \in 1..(d + 1) |->
            SubSeq(name,
                   IF k = 1 THEN 1 ELSE NthDot(name, k - 1) + 1,
                   IF k = d + 1 THEN Len(name) ELSE NthDot(name, k) - 1)]

\* [String]::join(".")
RECURSIVE Join(_)
Join(labels) ==
    IF labels = <<>> THEN <<>>
    ELSE IF Len(labels) = 1 THEN labels[1]
    ELSE labels[1] \o <<DOT>> \o Join(Tail(labels))

RECURSIVE PutLabels(_)
PutLabels(labels) ==
    IF labels = <<>> THEN <<>>
    ELSE <<Len(labels[1]) % 256>> \o labels[1] \o PutLabels(Tail(labels))

serialize_dns_name(name) == PutLabels(Split(name)) \o <<0>>

\* only the pointer form, both top bits set
IsPointer_both_bits(len) == len >= 192

\* `len & 0xC0 != 0`: either of the two top bits is set
IsPointer(len) == len >= 64

RECURSIVE ParseLabels(_, _)
ParseLabels(buf, labels) ==
    IF buf = <<>> THEN Err("name_eof")
    ELSE LET len == buf[1]
             b1  == Tail(buf)
         IN  IF IsPointer(len) THEN Err("compression")
             ELSE IF len = 0 THEN Ok(Join(labels), b1)
             ELSE IF Len(b1) < len THEN Err("label_overrun")
             ELSE IF Short(b1, len) THEN Panic
             ELSE IF ~IsUtf8(Take(b1, len)) THEN Err("utf8")
             ELSE ParseLabels(Drop(b1, len), Append(labels, Take(b1, len)))

parse_dns_name(buf) == ParseLabels(buf, <<>>)

----------------------------------------------------------------------------
(* packet/header.rs *)

parse_opcode(opcode) ==
    CASE opcode = 0 -> "QUERY"
      [] opcode = 1 -> "IQUERY"
      [] opcode = 2 -> "STATUS"
      [] OTHER      -> "RESERVED"

OpCode_to_u8(op) ==
    CASE op = "QUERY"    -> 0
      [] op = "IQUERY"   -> 1
      [] op = "STATUS"   -> 2
      [] op = "RESERVED" -> 3

parse_rcode(rcode) ==
    CASE rcode = 0 -> "NoError"
      [] rcode = 1 -> "FormErr"
      [] rcode = 2 -> "ServFail"
      [] rcode = 3 -> "NXDomain"
      [] rcode = 4 -> "NotImp"
      [] rcode = 5 -> "Refused"
      [] OTHER     -> "RESERVED"

RCode_to_u8(rc) ==
    CASE rc = "NoError"  -> 0
      [] rc = "FormErr"  -> 1
      [] rc = "ServFail" -> 2
      [] rc = "NXDomain" -> 3
      [] rc = "NotImp"   -> 4
      [] rc = "Refused"  -> 5
      [] rc = "RESERVED" -> 15

DnsHeader_serialize(h) ==
    put_u16(h.transaction_id)
    \o << BoolBit(h.response) * 128 + OpCode_to_u8(h.opcode) * 8
          + BoolBit(h.authoritative_answer) * 4 + BoolBit(h.truncation) * 2
          + BoolBit(h.recursion_desired) >>
    \o << BoolBit(h.recursion_available) * 128 + BoolBit(h.reserved) * 64
          + BoolBit(h.authenticated_data) * 32 + BoolBit(h.checking_disabled) * 16
          + RCode_to_u8(h.rcode) >>
    \o put_u16(h.qd_count) \o put_u16(h.an_count)
    \o put_u16(h.ns_count) \o put_u16(h.ar_count)

parse_dns_header(buf) ==
    IF Len(buf) < 12 THEN Err("header_short")
    ELSE IF Short(buf, 12) THEN Panic
    ELSE LET byte2 == buf[3]
             byte3 == buf[4]
         IN  IF Bit(byte3, 4) = 1 THEN Err("z_bit")
             ELSE Ok([transaction_id       |-> get_u16(buf),
                      response             |-> Bit(byte2, 7) = 1,
                      opcode               |-> parse_opcode(Shr(byte2, 3) % 16),
                      authoritative_answer |-> Bit(byte2, 2) = 1,
                      truncation           |-> Bit(byte2, 1) = 1,
                      recursion_desired    |-> byte2 % 2 = 1,
                      recursion_available  |-> Shr(byte3, 7) = 1,
                      reserved             |-> Shr(byte3, 6) = 1,
                      authenticated_data   |-> Shr(byte3, 5) = 1,
                      checking_disabled    |-> Shr(byte3, 4) = 1,
                      rcode                |-> parse_rcode(byte3 % 16),
                      qd_count             |-> get_u16(Drop(buf, 4)),
                      an_count             |-> get_u16(Drop(buf, 6)),
                      ns_count             |-> get_u16(Drop(buf, 8)),
                      ar_count             |-> get_u16(Drop(buf, 10))],
                     Drop(buf, 12))

----------------------------------------------------------------------------
(* packet/record_type.rs, packet/protocol_class.rs, packet/question.rs *)

Type_parse(n) ==
    CASE n = 1  -> [tag |-> "A", n |-> 0]
      [] n = 2  -> [tag |-> "NS", n |-> 0]
      [] n = 5  -> [tag |-> "CNAME", n |-> 0]
      [] n = 28 -> [tag |-> "AAAA", n |-> 0]
      [] OTHER  -> [tag |-> "Other", n |-> n]

Type_to_u16(t) ==
    CASE t.tag = "A"     -> 1
      [] t.tag = "NS"    -> 2
      [] t.tag = "CNAME" -> 5
      [] t.tag = "AAAA"  -> 28
      [] t.tag = "Other" -> t.n

Class_parse(n) ==
    CASE n = 1 -> [tag |-> "IN", n |-> 0]
      [] OTHER -> [tag |-> "Other", n |-> n]

Class_to_u16(c) ==
    CASE c.tag = "IN"    -> 1
      [] c.tag = "Other" -> c.n

DnsQuestion_serialize(q) ==
    serialize_dns_name(q.qname) \o put_u16(Type_to_u16(q.qtype))
    \o put_u16(Class_to_u16(q.qclass))

parse_dns_question(buf) ==
    LET nm == parse_dns_name(buf)
    IN  IF ~nm.ok THEN nm
        ELSE IF Len(nm.rest) < 4 THEN Err("question_short")
        ELSE IF Short(nm.rest, 4) THEN Panic
        ELSE Ok([qname  |-> nm.val,
                 qtype  |-> Type_parse(get_u16(nm.rest)),
                 qclass |-> Class_parse(get_u16(Drop(nm.rest, 2)))],
                Drop(nm.rest, 4))

----------------------------------------------------------------------------
(* packet/answer.rs *)

answer_serialize_dns_name(name) == PutLabels(Split(name)) \o <<0>>

answer_parse_dns_name(buf) == ParseLabels(buf, <<>>)

RData_serialize(rd) ==
    CASE rd.tag = "A"     -> rd.data
      [] rd.tag = "AAAA"  -> rd.data
      [] rd.tag = "NS"    -> answer_serialize_dns_name(rd.data)
      [] rd.tag = "CNAME" -> answer_serialize_dns_name(rd.data)
      [] rd.tag = "Other" -> rd.data

\* answer.rs:123-161: the match on the record kind
ReadRData(rtype, rdlength, buf) ==
    CASE rtype.tag = "A" ->
           IF rdlength # 4 THEN Err("a_len")
           ELSE IF Short(buf, 4) THEN Panic
           ELSE Ok([tag |-> "A", data |-> Take(buf, 4)], Drop(buf, 4))
      [] rtype.tag = "AAAA" ->
           IF rdlength # 16 THEN Err("aaaa_len")
           ELSE IF Short(buf, 16) THEN Panic
           ELSE Ok([tag |-> "AAAA", data |-> Take(buf, 16)], Drop(buf, 16))
      [] rtype.tag \in {"NS", "CNAME"} ->
           LET nm == answer_parse_dns_name(buf)
           IN  IF ~nm.ok THEN nm
               ELSE Ok([tag |-> rtype.tag, data |-> nm.val], nm.rest)
      [] rtype.tag = "Other" ->
           IF Short(buf, rdlength) THEN Panic
           ELSE Ok([tag |-> "Other", data |-> Take(buf, rdlength)],
                   Drop(buf, rdlength))

\* the record data read without the test of the declared length
parse_rdata_unguarded(rtype, rdlength, buf) == ReadRData(rtype, rdlength, buf)

parse_rdata(rtype, rdlength, buf) ==
    IF Len(buf) < rdlength THEN Err("rdata_short")
    ELSE ReadRData(rtype, rdlength, buf)

DnsAnswer_serialize(a) ==
    LET rdata_bytes == RData_serialize(a.rdata)
    IN  answer_serialize_dns_name(a.name)
        \o put_u16(Type_to_u16(a.rtype)) \o put_u16(Class_to_u16(a.rclass))
        \o put_u32(a.ttl)
        \o put_u16(Len(rdata_bytes) % 65536)
        \o rdata_bytes

parse_dns_answer(buf) ==
    LET nm == answer_parse_dns_name(buf)
    IN  IF ~nm.ok THEN nm
        ELSE IF Len(nm.rest) < 10 THEN Err("answer_short")
        ELSE IF Short(nm.rest, 10) THEN Panic
        ELSE LET rtype    == Type_parse(get_u16(nm.rest))
                 rclass   == Class_parse(get_u16(Drop(nm.rest, 2)))
                 ttl      == get_u32(Drop(nm.rest, 4))
                 rdlength == get_u16(Drop(nm.rest, 8))
                 rd       == parse_rdata(rtype, rdlength, Drop(nm.rest, 10))
             IN  IF ~rd.ok THEN rd
                 ELSE Ok([name |-> nm.val, rtype |-> rtype, rclass |-> rclass,
                          ttl |-> ttl, rdata |-> rd.val], rd.rest)

----------------------------------------------------------------------------
(* packet/mod.rs *)

RECURSIVE SerializeQuestions(_)
SerializeQuestions(qs) ==
    IF qs = <<>> THEN <<>>
    ELSE DnsQuestion_serialize(Head(qs)) \o SerializeQuestions(Tail(qs))

RECURSIVE SerializeAnswers(_)
SerializeAnswers(as) ==
    IF as = <<>> THEN <<>>
    ELSE DnsAnswer_serialize(Head(as)) \o SerializeAnswers(Tail(as))

DnsPacket_serialize(p) ==
    DnsHeader_serialize(p.header)
    \o SerializeQuestions(p.questions)
    \o SerializeAnswers(p.answers)
    \o p.unparsed

\* for _ in 0..header.qd_count { questions.push(parse_dns_question(&mut buf)?) }
RECURSIVE ParseQuestions(_, _, _)
ParseQuestions(n, buf, acc) ==
    IF n = 0 THEN Ok(acc, buf)
    ELSE LET r == parse_dns_question(buf)
         IN  IF ~r.ok THEN r
             ELSE ParseQuestions(n - 1, r.rest, Append(acc, r.val))

\* for _ in 0..header.an_count { answers.push(parse_dns_answer(&mut buf)?) }
RECURSIVE ParseAnswers(_, _, _)
ParseAnswers(n, buf, acc) ==
    IF n = 0 THEN Ok(acc, buf)
    ELSE LET r == parse_dns_answer(buf)
         IN  IF ~r.ok THEN r
             ELSE ParseAnswers(n - 1, r.rest, Append(acc, r.val))

parse_dns_query(b) ==
    LET hd == parse_dns_header(b)
    IN  IF ~hd.ok THEN hd
        ELSE LET qs == ParseQuestions(hd.val.qd_count, hd.rest, <<>>)
             IN  IF ~qs.ok THEN qs
                 ELSE LET as == ParseAnswers(hd.val.an_count, qs.rest, <<>>)
                      IN  IF ~as.ok THEN as
                          ELSE Ok([header    |-> hd.val,
                                   questions |-> qs.val,
                                   answers   |-> as.val,
                                   unparsed  |-> as.rest], <<>>)

----------------------------------------------------------------------------
(* zone_config.rs *)

DEFAULT_TTL == 5

None == [some |-> FALSE, val |-> <<>>]

Some(v) == [some |-> TRUE, val |-> v]

\* Option<u32>: Zone::ttl
NoTtl == [some |-> FALSE, val |-> 0]

\* Option<u32>::unwrap_or
unwrap_or(opt, d) == IF opt.some THEN opt.val ELSE d

\* str::ends_with
ends_with(s, suffix) ==
    Len(suffix) <= Len(s) /\ Drop(s, Len(s) - Len(suffix)) = suffix

\* the record's own name left out
combined_name_zone_only(record, zone_name) == zone_name

\* the record's name glued to the zone's name without the dot
combined_name_no_dot(record, zone_name) == record.name \o zone_name

combined_name(record, zone_name) ==
    IF record.name = <<>> THEN zone_name
    ELSE record.name \o <<DOT>> \o zone_name

\* the TTL taken only from a record of the queried kind
ScanRecord_ttl_on_kind(zone, record, domain, record_type, acc) ==
    IF combined_name(record, zone.name) = domain /\ record.record_type = record_type
    THEN [records |-> Append(acc.records, record),
          ttl     |-> IF acc.records = <<>>
                      THEN unwrap_or(zone.ttl, DEFAULT_TTL)
                      ELSE acc.ttl]
    ELSE acc

\* the body of `for record in &zone.records`, acc = [records, ttl]
ScanRecord(zone, record, domain, record_type, acc) ==
    IF combined_name(record, zone.name) = domain
    THEN [records |-> IF record.record_type = record_type
                      THEN Append(acc.records, record)
                      ELSE acc.records,
          ttl     |-> IF acc.records = <<>>
                      THEN unwrap_or(zone.ttl, DEFAULT_TTL)
                      ELSE acc.ttl]
    ELSE acc

RECURSIVE ScanRecords(_, _, _, _, _)
ScanRecords(zone, records, domain, record_type, acc) ==
    IF records = <<>> THEN acc
    ELSE ScanRecords(zone, Tail(records), domain, record_type,
                     ScanRecord(zone, Head(records), domain, record_type, acc))

RECURSIVE ScanZones(_, _, _, _)
ScanZones(zones, domain, record_type, acc) ==
    IF zones = <<>> THEN acc
    ELSE LET zone == Head(zones)
         IN  IF ~ends_with(domain, zone.name)
             THEN ScanZones(Tail(zones), domain, record_type, acc)
             ELSE ScanZones(Tail(zones), domain, record_type,
                            ScanRecords(zone, zone.records, domain,
                                        record_type, acc))

\* returns [records |-> Vec<Record>, ttl |-> u32]
find_record(cfg, domain, record_type) ==
    ScanZones(cfg, domain, record_type, [records |-> <<>>, ttl |-> DEFAULT_TTL])

----------------------------------------------------------------------------
(* lib.rs: construct_reply *)

U16_MAX == 65535

\* `len as u16`: the count wrapped modulo 65536
SatU16_wrap(n) == n % 65536

\* usize::try_into::<u16>().unwrap_or(u16::MAX)
SatU16(n) == IF n > U16_MAX THEN U16_MAX ELSE n

ClassIN == [tag |-> "IN", n |-> 0]

\* the response test reading the neighbouring flag
Declines_wrong_flag(header) == header.recursion_available

\* every message that is not a standard query declined as well
Declines_non_query(header) == header.response \/ header.opcode # "QUERY"

\* lib.rs:29 `if header.response { return None; }`
Declines(header) == header.response

\* `questions.len() >= 1` for `== 1`
Branch_at_least_one(questions) ==
    IF Len(questions) >= 1
    THEN IF questions[1].qclass = ClassIN THEN "lookup" ELSE "refused"
    ELSE "notimp"

\* the class test left out
Branch_any_class(questions) ==
    IF Len(questions) = 1 THEN "lookup" ELSE "notimp"

\* lib.rs:34-56: which arm of the decision the questions select
Branch(questions) ==
    IF Len(questions) = 1
    THEN IF questions[1].qclass = ClassIN THEN "lookup" ELSE "refused"
    ELSE "notimp"

\* the answers stamped with the default TTL, not the looked-up one
ReplyAnswers_default_ttl(q, records, ttl) ==
    [i \in 1..Len(records) |->
        [name   |-> q.qname,
         rclass |-> q.qclass,
         rtype  |-> q.qtype,
         ttl    |-> DEFAULT_TTL,
         rdata  |-> records[i].rdata]]

\* lib.rs:42-48
ReplyAnswers(q, records, ttl) ==
    [i \in 1..Len(records) |->
        [name   |-> q.qname,
         rclass |-> q.qclass,
         rtype  |-> q.qtype,
         ttl    |-> ttl,
         rdata  |-> records[i].rdata]]

\* the reply header with the authoritative bit copied from the query
ReplyHeader_copy_aa(header, rcode, nq, na) ==
    [transaction_id       |-> header.transaction_id,
     response             |-> TRUE,
     opcode               |-> header.opcode,
     authoritative_answer |-> header.authoritative_answer,
     truncation           |-> FALSE,
     recursion_desired    |-> header.recursion_desired,
     recursion_available  |-> FALSE,
     reserved             |-> FALSE,
     authenticated_data   |-> FALSE,
     checking_disabled    |-> FALSE,
     rcode                |-> rcode,
     qd_count             |-> SatU16(nq),
     an_count             |-> SatU16(na),
     ns_count             |-> 0,
     ar_count             |-> 0]

\* lib.rs:59-75
ReplyHeader(header, rcode, nq, na) ==
    [transaction_id       |-> header.transaction_id,
     response             |-> TRUE,
     opcode               |-> header.opcode,
     authoritative_answer |-> FALSE,
     truncation           |-> FALSE,
     recursion_desired    |-> header.recursion_desired,
     recursion_available  |-> FALSE,
     reserved             |-> FALSE,
     authenticated_data   |-> FALSE,
     checking_disabled    |-> FALSE,
     rcode                |-> rcode,
     qd_count             |-> SatU16(nq),
     an_count             |-> SatU16(na),
     ns_count             |-> 0,
     ar_count             |-> 0]

\* construct_reply with the find_record calls it makes:
\* [reply |-> Option<DnsPacket>, calls |-> sequence of <<domain, kind>>]
construct_reply_run(cfg, qry) ==
    LET header    == qry.header
        questions == qry.questions
    IN  IF Declines(header) THEN [reply |-> None, calls |-> <<>>]
        ELSE LET branch  == Branch(questions)
                 q       == questions[1]
                 fr      == find_record(cfg, q.qname, q.qtype)
                 answers == IF branch = "lookup" /\ fr.records # <<>>
                            THEN ReplyAnswers(q, fr.records, fr.ttl)
                            ELSE <<>>
                 rcode   == CASE branch = "lookup" ->
                                   IF fr.records = <<>> THEN "NXDomain"
                                   ELSE "NoError"
                              [] branch = "refused" -> "Refused"
                              [] branch = "notimp" -> "NotImp"
             IN  [reply |-> Some([header    |-> ReplyHeader(header, rcode,
                                                            Len(questions),
                                                            Len(answers)),
                                  questions |-> questions,
                                  answers   |-> answers,
                                  unparsed  |-> <<>>]),
                  calls |-> IF branch = "lookup"
                            THEN << <<q.qname, q.qtype>> >> ELSE <<>>]

construct_reply(cfg, qry) == construct_reply_run(cfg, qry).reply

----------------------------------------------------------------------------
(* Input buffers of the codec specification: wire messages assembled from   *)
(* well-formed and ill-formed pieces, and their truncations.                *)

MaxQuestions == 2

SeqsUpTo(S, n) == UNION { [1..k -> S] : k \in 0..n }

Prefixes(S) == { Take(m, n) : <<m, n>> \in UNION { {m} \X (0..Len(m)) : m \in S } }

WireHeader(id, b2, b3, qd, an, ns, ar) ==
    put_u16(id) \o <<b2, b3>> \o put_u16(qd) \o put_u16(an)
    \o put_u16(ns) \o put_u16(ar)

\* byte 2 of the header: every opcode, and every flag bit alone and together
Byte2s == { 8 * op : op \in 0..15 } \cup {1, 2, 4, 128, 135, 255}

Byte3s == 0..255

\* root, "a", "a.b", one label ".", one label "a.b", a two-byte UTF-8 label
GoodWireNames ==
    { <<0>>, <<1, 97, 0>>, <<1, 97, 1, 98, 0>>, <<1, 46, 0>>,
      <<3, 97, 46, 98, 0>>, <<2, 195, 169, 0>> }

\* compression pointers (top bits 11, 01, 10), invalid UTF-8, overrun, no end
BadWireNames ==
    { <<192, 12>>, <<1, 97, 192, 12>>, <<64, 0>>, <<128, 0>>, <<1, 200, 0>>,
      <<5, 97>>, <<1, 97>> }

WireNames == GoodWireNames \cup BadWireNames

WireQuestion(nm, t, c) == nm \o put_u16(t) \o put_u16(c)

WireQuestions ==
    { WireQuestion(nm, t, c) : nm \in WireNames, t \in {1, 2, 5, 28, 99}, c \in {1, 3} }

FewWireQuestions ==
    { WireQuestion(nm, tc[1], tc[2]) :
        nm \in { <<0>>, <<1, 97, 0>>, <<1, 97, 1, 98, 0>>, <<192, 12>> },
        tc \in { <<1, 1>>, <<99, 1>>, <<1, 3>> } }

WireTails == { <<>>, <<0, 0, 41>> }

WireAnswer(nm, t, c, ttl, rdlength, rdata) ==
    nm \o put_u16(t) \o put_u16(c) \o put_u32(ttl) \o put_u16(rdlength) \o rdata

Ip4 == <<23, 192, 228, 80>>

Ip6 == <<38, 0, 20, 6, 188, 0, 0, 83, 0, 0, 0, 0, 184, 30, 148, 200>>

\* <<kind, declared length, record data>>
WireRData ==
    { <<1, 4, Ip4>>, <<1, 3, Take(Ip4, 3)>>, <<1, 5, Ip4 \o <<0>> >>,
      <<1, 4, Take(Ip4, 2)>>,
      <<28, 16, Ip6>>, <<28, 4, Ip4>>,
      <<2, 3, <<1, 97, 0>> >>, <<2, 1, <<1, 97, 0>> >>, <<2, 0, <<1, 97, 0>> >>,
      <<2, 3, <<0, 7, 8>> >>, <<2, 9, <<1, 97, 0>> >>, <<2, 2, <<192, 12>> >>,
      <<5, 1, <<0>> >>, <<5, 5, <<1, 97, 1, 98, 0>> >>,
      <<99, 2, <<7, 8>> >>, <<99, 0, <<>> >>, <<99, 5, <<7>> >> }

WireAnswers ==
    { WireAnswer(nm, rd[1], c, ttl, rd[2], rd[3]) :
        nm \in { <<0>>, <<1, 97, 0>>, <<192, 12>> }, c \in {1, 3},
        ttl \in {5, 16909060}, rd \in WireRData }

HeaderInputs ==
    { WireHeader(29982, b2, b3, 0, 0, 0, 1) \o <<0, 0, 41>> :
        b2 \in Byte2s, b3 \in Byte3s }

QuestionInputs ==
    { WireHeader(29982, 1, 0, 1, 0, 0, 0) \o q \o t :
        q \in WireQuestions, t \in WireTails }

QuestionListInputs ==
    { WireHeader(29982, 1, 0, qd, 0, 0, 0) \o Concat(qs) \o t :
        qd \in 0..MaxQuestions, qs \in SeqsUpTo(FewWireQuestions, MaxQuestions),
        t \in WireTails }

AnswerInputs ==
    { WireHeader(29982, 129, 128, Len(qs), an, 0, 0) \o Concat(qs) \o a \o t :
        qs \in SeqsUpTo({WireQuestion(<<1, 97, 0>>, 1, 1)}, 1), an \in 0..2,
        a \in WireAnswers, t \in WireTails }

TruncatedInputs ==
    Prefixes({ WireHeader(29982, 1, 0, 1, 1, 0, 0)
               \o WireQuestion(<<1, 97, 0>>, 1, 1)
               \o WireAnswer(<<1, 97, 0>>, rd[1], 1, 5, rd[2], rd[3]) :
               rd \in WireRData })

\* the length bytes with a top bit set
PointerBytes == 64..255

\* a name whose label length byte l has a top bit set, after well-formed
\* labels, followed by l bytes and a terminator
PointerName(prefix, l) == prefix \o <<l>> \o [i \in 1..l |-> 97] \o <<0>>

PointerNames ==
    { PointerName(prefix, l) :
        prefix \in { <<>>, <<1, 97>> }, l \in PointerBytes }

PointerQuestionInputs ==
    { WireHeader(29982, 1, 0, 1, 0, 0, 0) \o WireQuestion(nm, 1, 1) :
        nm \in PointerNames }

PointerOwnerInputs ==
    { WireHeader(29982, 129, 128, 0, 1, 0, 0) \o WireAnswer(nm, 1, 1, 5, 4, Ip4) :
        nm \in PointerNames }

PointerRDataInputs ==
    { WireHeader(29982, 129, 128, 0, 1, 0, 0)
      \o WireAnswer(<<1, 97, 0>>, t, 1, 5, Len(nm), nm) :
        t \in {2, 5}, nm \in PointerNames }

PointerInputs ==
    PointerQuestionInputs \cup PointerOwnerInputs \cup PointerRDataInputs

CodecInputs ==
    HeaderInputs \cup QuestionInputs \cup QuestionListInputs \cup AnswerInputs
    \cup TruncatedInputs \cup PointerInputs

----------------------------------------------------------------------------
(* Stores and queries of the reply specification. *)

NameB == <<98>>

NameAB == <<97, DOT, 98>>

NameAb == <<97, 98>>

TypeA == Type_parse(1)

TypeNS == Type_parse(2)

Ip4b == <<23, 192, 228, 84>>

\* names of zones; a HashMap holds each at most once
ZoneNames == {NameB, NameAB}

ZoneOrders ==
    { o \in SeqsUpTo(ZoneNames, Cardinality(ZoneNames)) :
        \A i, j \in 1..Len(o) : i # j => o[i] # o[j] }

TTLs == {NoTtl, Some(7), Some(9)}

RecordUniverse ==
    { [name |-> n, record_type |-> d[1], rdata |-> d[2]] :
        n \in {<<>>, <<97>>},
        d \in { <<TypeA, [tag |-> "A", data |-> Ip4]>>,
                <<TypeA, [tag |-> "A", data |-> Ip4b]>>,
                <<TypeNS, [tag |-> "NS", data |-> <<110, DOT, 98>>]>> } }

\* the number of records of a store
MaxRecords == 2

RECURSIVE TotalLen(_, _)
TotalLen(lists, n) == IF n = 0 THEN 0 ELSE Len(lists[n]) + TotalLen(lists, n - 1)

StoresFor(order) ==
    { [i \in 1..Len(order) |->
          [name |-> order[i], ttl |-> t[i], records |-> r[i]]] :
        t \in [1..Len(order) -> TTLs],
        r \in { rr \in [1..Len(order) -> SeqsUpTo(RecordUniverse, MaxRecords)] :
                  TotalLen(rr, Len(order)) <= MaxRecords } }

Stores == UNION { StoresFor(o) : o \in ZoneOrders }

NameCAB == <<99, DOT, 97, DOT, 98>>

LookupNames == {NameB, NameAB, NameAb, NameCAB}

LookupKinds == {TypeA, TypeNS}

OpCodes == {"QUERY", "IQUERY", "STATUS", "RESERVED"}

QuestionUniverse ==
    { [qname |-> n, qtype |-> t, qclass |-> c] :
        n \in LookupNames, t \in LookupKinds, c \in {ClassIN, Class_parse(3)} }

FewQuestions ==
    { [qname |-> NameAB, qtype |-> TypeA, qclass |-> ClassIN],
      [qname |-> NameB, qtype |-> TypeNS, qclass |-> Class_parse(3)] }

\* a query as a resolver sends it
CleanQuery(response, opcode, questions) ==
    [header    |-> [transaction_id       |-> 29982,
                    response             |-> response,
                    opcode               |-> opcode,
                    authoritative_answer |-> FALSE,
                    truncation           |-> FALSE,
                    recursion_desired    |-> TRUE,
                    recursion_available  |-> FALSE,
                    reserved             |-> FALSE,
                    authenticated_data   |-> FALSE,
                    checking_disabled    |-> FALSE,
                    rcode                |-> "NoError",
                    qd_count             |-> Len(questions),
                    an_count             |-> 0,
                    ns_count             |-> 0,
                    ar_count             |-> 1],
     questions |-> questions,
     answers   |-> <<>>,
     unparsed  |-> <<0, 0, 41>>]

\* a message with every other flag set, counts that match nothing, an answer
NoisyQuery(response, opcode, questions) ==
    [header    |-> [transaction_id       |-> 65535,
                    response             |-> response,
                    opcode               |-> opcode,
                    authoritative_answer |-> TRUE,
                    truncation           |-> TRUE,
                    recursion_desired    |-> FALSE,
                    recursion_available  |-> TRUE,
                    reserved             |-> TRUE,
                    authenticated_data   |-> TRUE,
                    checking_disabled    |-> TRUE,
                    rcode                |-> "Refused",
                    qd_count             |-> 7,
                    an_count             |-> 2,
                    ns_count             |-> 3,
                    ar_count             |-> 4],
     questions |-> questions,
     answers   |-> << [name |-> NameB, rtype |-> TypeA, rclass |-> ClassIN,
                       ttl |-> 1, rdata |-> [tag |-> "A", data |-> Ip4]] >>,
     unparsed  |-> <<1>>]

MaxQueryQuestions == 2

Queries ==
    { CleanQuery(r, op, <<q>>) :
        r \in BOOLEAN, op \in {"QUERY"}, q \in QuestionUniverse }
    \cup { CleanQuery(r, op, qs) :
             r \in BOOLEAN, op \in {"QUERY", "STATUS"},
             qs \in SeqsUpTo(FewQuestions, MaxQueryQuestions) }
    \cup { NoisyQuery(r, op, <<q>>) :
             r \in BOOLEAN, op \in OpCodes, q \in FewQuestions }

ServerIdle ==
    /\ spc = "off"
    /\ sresult = "none"
    /\ recv_buf = <<>>
    /\ tasks = <<>>
    /\ conns = <<>>
    /\ udp_sent = <<>>
    /\ udp_recv = <<>>

ReplyIdle ==
    /\ config = <<>>
    /\ query = None
    /\ reply = None
    /\ calls = <<>>
    /\ found = None
    /\ rpc = "off"

----------------------------------------------------------------------------
(* SpecCodec: parse a buffer, serialize the packet it decodes to. *)

CodecIdle ==
    /\ cdata = <<>>
    /\ cres = Err("none")
    /\ cout = <<>>
    /\ cpc = "idle"

InitCodec ==
    /\ cdata \in CodecInputs
    /\ cres = Err("none")
    /\ cout = <<>>
    /\ cpc = "input"
    /\ ReplyIdle
    /\ ServerIdle

Parse ==
    /\ cpc = "input"
    /\ cres' = parse_dns_query(cdata)
    /\ cpc' = "parsed"
    /\ UNCHANGED <<cdata, cout>>
    /\ UNCHANGED <<replyVars, serverVars>>

Serialize ==
    /\ cpc = "parsed"
    /\ cres.ok
    /\ cout' = DnsPacket_serialize(cres.val)
    /\ cpc' = "serialized"
    /\ UNCHANGED <<cdata, cres>>
    /\ UNCHANGED <<replyVars, serverVars>>

NextCodec == Parse \/ Serialize

SpecCodec == InitCodec /\ [][NextCodec]_vars

\* C1: every buffer that parse_dns_query decodes is reproduced byte for byte
\* by serializing the decoded packet.
C1_RoundTrip == cpc = "serialized" => cout = cdata

----------------------------------------------------------------------------
(* SpecReply: a store, then one call of construct_reply (and construct_reply *)
(* again on the reply) or one direct call of find_record.                   *)

InitReply ==
    /\ config \in Stores
    /\ query = None
    /\ reply = None
    /\ calls = <<>>
    /\ found = None
    /\ rpc = "idle"
    /\ CodecIdle
    /\ ServerIdle

ConstructReply ==
    /\ rpc = "idle"
    /\ \E q \in Queries :
         /\ query' = Some(q)
         /\ reply' = construct_reply_run(config, q).reply
         /\ calls' = construct_reply_run(config, q).calls
    /\ rpc' = "replied"
    /\ UNCHANGED <<config, found>>
    /\ UNCHANGED <<codecVars, serverVars>>

ReplyToReply ==
    /\ rpc = "replied"
    /\ reply.some
    /\ query' = reply
    /\ reply' = construct_reply_run(config, reply.val).reply
    /\ calls' = construct_reply_run(config, reply.val).calls
    /\ rpc' = "replied_again"
    /\ UNCHANGED <<config, found>>
    /\ UNCHANGED <<codecVars, serverVars>>

FindRecord ==
    /\ rpc = "idle"
    /\ \E d \in LookupNames, k \in LookupKinds :
         found' = Some([domain |-> d, record_type |-> k,
                        records |-> find_record(config, d, k).records,
                        ttl |-> find_record(config, d, k).ttl])
    /\ rpc' = "found"
    /\ UNCHANGED <<config, query, reply, calls>>
    /\ UNCHANGED <<codecVars, serverVars>>

NextReply == ConstructReply \/ ReplyToReply \/ FindRecord

SpecReply == InitReply /\ [][NextReply]_vars

----------------------------------------------------------------------------
(* lib.rs: serve, process_udp, process_tcp.                                 *)
(*                                                                          *)
(* A task is [kind, peer, conn, pc, result, joined, data, length, out]:     *)
(* result is "running" until the future completes with "ok" or an error     *)
(* ("err_parse", "err_io", "err_eof"), or "aborted" when the JoinSet is     *)
(* dropped; joined says join_next has returned it.  A step of a task is     *)
(* the code between two awaits.                                             *)

MaxDatagrams == 1

MaxConns == 1

MaxChunks == 2

Peers == {"p1", "p2"}

ServerConfig ==
    << [name    |-> NameB,
        ttl     |-> Some(7),
        records |-> << [name |-> <<97>>, record_type |-> TypeA,
                        rdata |-> [tag |-> "A", data |-> Ip4]],
                       [name |-> <<97>>, record_type |-> TypeA,
                        rdata |-> [tag |-> "A", data |-> Ip4b]] >>] >>

QueryBytes ==
    DnsPacket_serialize(CleanQuery(FALSE, "QUERY",
        << [qname |-> NameAB, qtype |-> TypeA, qclass |-> ClassIN] >>))

ResponseBytes ==
    DnsPacket_serialize(CleanQuery(TRUE, "QUERY",
        << [qname |-> NameAB, qtype |-> TypeA, qclass |-> ClassIN] >>))

\* a question whose name is a compression pointer
MalformedBytes ==
    WireHeader(4660, 1, 0, 1, 0, 0, 0) \o WireQuestion(<<192, 12>>, 1, 1)

Datagrams == {QueryBytes, ResponseBytes, MalformedBytes}

Frame(d) == put_u16(Len(d)) \o d

\* what a peer writes to a stream in one go: whole frames, the first byte
\* of a length prefix, a length prefix of 5 with two bytes of body
Chunks == { Frame(d) : d \in Datagrams } \cup { <<0>>, <<0, 5, 1, 2>> }

\* lib.rs:148 allocates 65535 bytes; the model keeps as many as the longest
\* datagram it receives
RecvBufLen == Len(QueryBytes)

IsErr(result) == result \in {"err_parse", "err_io", "err_eof"}

Finished(result) == result = "ok" \/ IsErr(result)

NewTask(kind, peer, conn, data) ==
    [kind |-> kind, peer |-> peer, conn |-> conn,
     pc |-> IF kind = "udp" THEN "start" ELSE "read_len",
     result |-> "running", joined |-> FALSE,
     data |-> data, length |-> 0, out |-> <<>>]

TasksOf(kind) == { t \in 1..Len(tasks) : tasks[t].kind = kind }

\* dropping the JoinSet leaves every task as it is
AbortAll_none(ts) == ts

\* dropping the JoinSet aborts every task that has not completed
AbortAll(ts) ==
    [t \in 1..Len(ts) |->
        IF ts[t].result = "running" THEN [ts[t] EXCEPT !.result = "aborted"]
        ELSE ts[t]]

Fatal_udp_only(task) ==
    task.kind = "udp" /\ task.result \in {"err_parse", "err_io", "err_eof"}

Fatal_tcp_only(task) ==
    task.kind = "tcp" /\ task.result \in {"err_parse", "err_io", "err_eof"}

\* lib.rs:153 `result.unwrap()?`: does the completed task end serve
Fatal(task) == IsErr(task.result)

InitServer ==
    /\ spc = "running"
    /\ sresult = "none"
    /\ recv_buf = [i \in 1..RecvBufLen |-> 0]
    /\ tasks = <<>>
    /\ conns = <<>>
    /\ udp_sent = <<>>
    /\ udp_recv = <<>>
    /\ config = ServerConfig
    /\ query = None
    /\ reply = None
    /\ calls = <<>>
    /\ found = None
    /\ rpc = "off"
    /\ CodecIdle

ServerFrame == UNCHANGED <<codecVars, replyVars>>

\* lib.rs:153: join_next returned the completed task t
JoinNext(t) ==
    /\ spc = "running"
    /\ Finished(tasks[t].result)
    /\ ~tasks[t].joined
    /\ IF Fatal(tasks[t])
       THEN /\ spc' = "returned"
            /\ sresult' = tasks[t].result
            /\ tasks' = AbortAll([tasks EXCEPT ![t].joined = TRUE])
       ELSE /\ tasks' = [tasks EXCEPT ![t].joined = TRUE]
            /\ UNCHANGED <<spc, sresult>>
    /\ UNCHANGED <<recv_buf, conns, udp_sent, udp_recv>>
    /\ ServerFrame

\* lib.rs:155-161: recv_from filled the buffer, a task gets a copy; at most
\* `limit` datagrams arrive
RecvUpTo(d, peer, limit) ==
    /\ spc = "running"
    /\ Cardinality(TasksOf("udp")) < limit
    /\ LET buf == d \o Drop(recv_buf, Len(d))
       IN  /\ recv_buf' = buf
           /\ tasks' = Append(tasks, NewTask("udp", peer, 0, Take(buf, Len(d))))
    /\ udp_recv' = Append(udp_recv, [from |-> peer, bytes |-> d])
    /\ UNCHANGED <<spc, sresult, conns, udp_sent>>
    /\ ServerFrame

RecvDatagram(d, peer) == RecvUpTo(d, peer, MaxDatagrams)

\* lib.rs:156 `recv_result?`, lib.rs:165 `accept_result?`
SocketFail ==
    /\ spc = "running"
    /\ spc' = "returned"
    /\ sresult' = "err_io"
    /\ tasks' = AbortAll(tasks)
    /\ UNCHANGED <<recv_buf, conns, udp_sent, udp_recv>>
    /\ ServerFrame

\* lib.rs:164-167: a connection is accepted and handed to a task
Accept(peer) ==
    /\ spc = "running"
    /\ Len(conns) < MaxConns
    /\ conns' = Append(conns, [peer |-> peer, inbox |-> <<>>, closed |-> FALSE,
                               chunks |-> 0, outbox |-> <<>>,
                               wrote |-> <<>>])
    /\ tasks' = Append(tasks, NewTask("tcp", peer, Len(conns) + 1, <<>>))
    /\ UNCHANGED <<spc, sresult, recv_buf, udp_sent, udp_recv>>
    /\ ServerFrame

\* the peer of connection c writes bytes, at most `limit` times
PeerSendUpTo(c, chunk, limit) ==
    /\ ~conns[c].closed
    /\ conns[c].chunks < limit
    /\ conns' = [conns EXCEPT ![c].inbox = @ \o chunk, ![c].chunks = @ + 1,
                              ![c].wrote = @ \o chunk]
    /\ UNCHANGED <<spc, sresult, recv_buf, tasks, udp_sent, udp_recv>>
    /\ ServerFrame

PeerSend(c, chunk) == PeerSendUpTo(c, chunk, MaxChunks)

\* the peer of connection c closes its side
PeerClose(c) ==
    /\ ~conns[c].closed
    /\ conns' = [conns EXCEPT ![c].closed = TRUE]
    /\ UNCHANGED <<spc, sresult, recv_buf, tasks, udp_sent, udp_recv>>
    /\ ServerFrame

\* lib.rs:88-97, 121-133: parse the bytes and decide; the task then ends
\* with a parse error, has nothing to send, or holds the reply bytes
Respond(task, rep, idle_pc, send_pc) ==
    IF ~rep.some THEN [task EXCEPT !.pc = idle_pc]
    ELSE [task EXCEPT !.pc = send_pc, !.out = DnsPacket_serialize(rep.val)]

Decide(task, parsed, idle_pc, send_pc) ==
    IF ~parsed.ok THEN [task EXCEPT !.result = "err_parse", !.pc = "done"]
    ELSE Respond(task, construct_reply(config, parsed.val), idle_pc, send_pc)

Handle(task, data, idle_pc, send_pc) ==
    Decide(task, parse_dns_query(data), idle_pc, send_pc)

\* a datagram task with nothing to send has returned Ok
Return(task) ==
    IF task.pc = "done" /\ task.result = "running"
    THEN [task EXCEPT !.result = "ok"] ELSE task

Running(t) == tasks[t].result = "running"

\* the task parses what the receive buffer holds when it runs
UdpHandle_shared_buf(t) ==
    /\ tasks[t].result = "running" /\ tasks[t].kind = "udp"
    /\ tasks[t].pc = "start"
    /\ tasks' = [tasks EXCEPT ![t] =
         IF ~parse_dns_query(Take(recv_buf, Len(tasks[t].data))).ok
         THEN [@ EXCEPT !.data = Take(recv_buf, Len(tasks[t].data)),
                        !.result = "err_parse", !.pc = "done"]
         ELSE [@ EXCEPT !.data = Take(recv_buf, Len(tasks[t].data)),
                        !.result = "ok", !.pc = "done"]]
    /\ UNCHANGED <<spc, sresult, recv_buf, conns, udp_sent, udp_recv>>
    /\ UNCHANGED <<cdata, cres, cout, cpc, config, query, reply, calls, found, rpc>>

\* process_udp up to its await on send_to
UdpHandle(t) ==
    /\ Running(t) /\ tasks[t].kind = "udp" /\ tasks[t].pc = "start"
    /\ tasks' = [tasks EXCEPT ![t] =
                    Return(Handle(tasks[t], tasks[t].data, "done", "send"))]
    /\ UNCHANGED <<spc, sresult, recv_buf, conns, udp_sent, udp_recv>>
    /\ ServerFrame

\* the task sends and stays where it can send again
UdpSend_again(t) ==
    /\ tasks[t].result = "running" /\ tasks[t].kind = "udp"
    /\ tasks[t].pc = "send"
    /\ udp_sent' = Append(udp_sent, [to |-> tasks[t].peer, bytes |-> tasks[t].out,
                                     task |-> t])
    /\ UNCHANGED <<spc, sresult, recv_buf, conns, tasks, udp_recv>>
    /\ UNCHANGED <<cdata, cres, cout, cpc, config, query, reply, calls, found, rpc>>

\* the task completes as if it had sent, and no datagram leaves
UdpSend_dropped(t) ==
    /\ tasks[t].result = "running" /\ tasks[t].kind = "udp"
    /\ tasks[t].pc = "send"
    /\ tasks' = [tasks EXCEPT ![t].result = "ok", ![t].pc = "done"]
    /\ UNCHANGED <<spc, sresult, recv_buf, conns, udp_sent, udp_recv>>
    /\ UNCHANGED <<cdata, cres, cout, cpc, config, query, reply, calls, found, rpc>>

\* lib.rs:93: send_to succeeded
UdpSend(t) ==
    /\ Running(t) /\ tasks[t].kind = "udp" /\ tasks[t].pc = "send"
    /\ udp_sent' = Append(udp_sent, [to |-> tasks[t].peer, bytes |-> tasks[t].out,
                                     task |-> t])
    /\ tasks' = [tasks EXCEPT ![t].result = "ok", ![t].pc = "done"]
    /\ UNCHANGED <<spc, sresult, recv_buf, conns, udp_recv>>
    /\ ServerFrame

\* lib.rs:93: send_to failed
UdpSendFail(t) ==
    /\ Running(t) /\ tasks[t].kind = "udp" /\ tasks[t].pc = "send"
    /\ tasks' = [tasks EXCEPT ![t].result = "err_io", ![t].pc = "done"]
    /\ UNCHANGED <<spc, sresult, recv_buf, conns, udp_sent, udp_recv>>
    /\ ServerFrame

\* lib.rs:108-109: read_u16 got its two bytes
TcpReadLen(t) ==
    /\ Running(t) /\ tasks[t].kind = "tcp" /\ tasks[t].pc = "read_len"
    /\ LET c == tasks[t].conn
       IN  /\ Len(conns[c].inbox) >= 2
           /\ tasks' = [tasks EXCEPT ![t].length = get_u16(conns[c].inbox),
                                     ![t].pc = "read_body"]
           /\ conns' = [conns EXCEPT ![c].inbox = Drop(@, 2)]
    /\ UNCHANGED <<spc, sresult, recv_buf, udp_sent, udp_recv>>
    /\ ServerFrame

\* the end of the stream at a length prefix returned as an error
TcpReadLenEof_error(t) ==
    /\ tasks[t].result = "running" /\ tasks[t].kind = "tcp"
    /\ tasks[t].pc = "read_len"
    /\ conns[tasks[t].conn].closed
    /\ Len(conns[tasks[t].conn].inbox) < 2
    /\ conns' = [conns EXCEPT ![tasks[t].conn].inbox = <<>>]
    /\ tasks' = [tasks EXCEPT ![t].result = "err_eof", ![t].pc = "done"]
    /\ UNCHANGED <<spc, sresult, recv_buf, udp_sent, udp_recv>>
    /\ UNCHANGED <<cdata, cres, cout, cpc, config, query, reply, calls, found, rpc>>

\* the end of the stream after the first byte of a length prefix returned
\* as an error
TcpReadLenEof_boundary_only(t) ==
    /\ tasks[t].result = "running" /\ tasks[t].kind = "tcp"
    /\ tasks[t].pc = "read_len"
    /\ conns[tasks[t].conn].closed
    /\ Len(conns[tasks[t].conn].inbox) < 2
    /\ conns' = [conns EXCEPT ![tasks[t].conn].inbox = <<>>]
    /\ tasks' = [tasks EXCEPT ![t].result =
                    IF conns[tasks[t].conn].inbox = <<>> THEN "ok" ELSE "err_eof",
                              ![t].pc = "done"]
    /\ UNCHANGED <<spc, sresult, recv_buf, udp_sent, udp_recv>>
    /\ UNCHANGED <<cdata, cres, cout, cpc, config, query, reply, calls, found, rpc>>

\* lib.rs:110-113: read_u16 met the end of the stream: the task returns Ok
TcpReadLenEof(t) ==
    /\ Running(t) /\ tasks[t].kind = "tcp" /\ tasks[t].pc = "read_len"
    /\ LET c == tasks[t].conn
       IN  /\ conns[c].closed
           /\ Len(conns[c].inbox) < 2
           /\ conns' = [conns EXCEPT ![c].inbox = <<>>]
    /\ tasks' = [tasks EXCEPT ![t].result = "ok", ![t].pc = "done"]
    /\ UNCHANGED <<spc, sresult, recv_buf, udp_sent, udp_recv>>
    /\ ServerFrame

\* lib.rs:114, 118: a read failed with another I/O error; a stream that the
\* peer has closed delivers its bytes and then the end of the stream
TcpReadFail(t) ==
    /\ Running(t) /\ tasks[t].kind = "tcp"
    /\ tasks[t].pc \in {"read_len", "read_body"}
    /\ ~conns[tasks[t].conn].closed
    /\ tasks' = [tasks EXCEPT ![t].result = "err_io", ![t].pc = "done"]
    /\ UNCHANGED <<spc, sresult, recv_buf, conns, udp_sent, udp_recv>>
    /\ ServerFrame

\* lib.rs:117-123: read_exact got the frame; parse and decide
TcpReadBody(t) ==
    /\ Running(t) /\ tasks[t].kind = "tcp" /\ tasks[t].pc = "read_body"
    /\ LET c    == tasks[t].conn
           n    == tasks[t].length
           data == Take(conns[c].inbox, n)
       IN  /\ Len(conns[c].inbox) >= n
           /\ conns' = [conns EXCEPT ![c].inbox = Drop(@, n)]
           /\ tasks' = [tasks EXCEPT ![t] =
                           Handle([tasks[t] EXCEPT !.data = data], data,
                                  "read_len", "write_len")]
    /\ UNCHANGED <<spc, sresult, recv_buf, udp_sent, udp_recv>>
    /\ ServerFrame

\* lib.rs:118: read_exact met the end of the stream inside the frame
TcpReadBodyEof(t) ==
    /\ Running(t) /\ tasks[t].kind = "tcp" /\ tasks[t].pc = "read_body"
    /\ LET c == tasks[t].conn
       IN  /\ conns[c].closed
           /\ Len(conns[c].inbox) < tasks[t].length
           /\ conns' = [conns EXCEPT ![c].inbox = <<>>]
    /\ tasks' = [tasks EXCEPT ![t].result = "err_eof", ![t].pc = "done"]
    /\ UNCHANGED <<spc, sresult, recv_buf, udp_sent, udp_recv>>
    /\ ServerFrame

\* lib.rs:126-127: the length prefix of the reply is written
TcpWriteLen(t) ==
    /\ Running(t) /\ tasks[t].kind = "tcp" /\ tasks[t].pc = "write_len"
    /\ conns' = [conns EXCEPT ![tasks[t].conn].outbox =
                    @ \o put_u16(Len(tasks[t].out) % 65536)]
    /\ tasks' = [tasks EXCEPT ![t].pc = "write_body"]
    /\ UNCHANGED <<spc, sresult, recv_buf, udp_sent, udp_recv>>
    /\ ServerFrame

\* the reply written ahead of what the connection already carries
TcpWriteBody_out_of_order(t) ==
    /\ tasks[t].result = "running" /\ tasks[t].kind = "tcp"
    /\ tasks[t].pc = "write_body"
    /\ conns' = [conns EXCEPT ![tasks[t].conn].outbox = tasks[t].out \o @]
    /\ tasks' = [tasks EXCEPT ![t].pc = "read_len"]
    /\ UNCHANGED <<spc, sresult, recv_buf, udp_sent, udp_recv>>
    /\ UNCHANGED <<cdata, cres, cout, cpc, config, query, reply, calls, found, rpc>>

\* lib.rs:128-129: the reply is written and flushed, the loop starts over
TcpWriteBody(t) ==
    /\ Running(t) /\ tasks[t].kind = "tcp" /\ tasks[t].pc = "write_body"
    /\ conns' = [conns EXCEPT ![tasks[t].conn].outbox = @ \o tasks[t].out]
    /\ tasks' = [tasks EXCEPT ![t].pc = "read_len"]
    /\ UNCHANGED <<spc, sresult, recv_buf, udp_sent, udp_recv>>
    /\ ServerFrame

\* lib.rs:127-129: a write or the flush failed
TcpWriteFail(t) ==
    /\ Running(t) /\ tasks[t].kind = "tcp"
    /\ tasks[t].pc \in {"write_len", "write_body"}
    /\ tasks' = [tasks EXCEPT ![t].result = "err_io", ![t].pc = "done"]
    /\ UNCHANGED <<spc, sresult, recv_buf, conns, udp_sent, udp_recv>>
    /\ ServerFrame

Next ==
    \/ \E t \in 1..Len(tasks) : JoinNext(t)
    \/ \E d \in Datagrams, peer \in Peers : RecvDatagram(d, peer)
    \/ SocketFail
    \/ \E peer \in Peers : Accept(peer)
    \/ \E c \in 1..Len(conns), chunk \in Chunks : PeerSend(c, chunk)
    \/ \E c \in 1..Len(conns) : PeerClose(c)
    \/ \E t \in 1..Len(tasks) : UdpHandle(t)
    \/ \E t \in 1..Len(tasks) : UdpSend(t)
    \/ \E t \in 1..Len(tasks) : UdpSendFail(t)
    \/ \E t \in 1..Len(tasks) : TcpReadLen(t)
    \/ \E t \in 1..Len(tasks) : TcpReadLenEof(t)
    \/ \E t \in 1..Len(tasks) : TcpReadFail(t)
    \/ \E t \in 1..Len(tasks) : TcpReadBody(t)
    \/ \E t \in 1..Len(tasks) : TcpReadBodyEof(t)
    \/ \E t \in 1..Len(tasks) : TcpWriteLen(t)
    \/ \E t \in 1..Len(tasks) : TcpWriteBody(t)
    \/ \E t \in 1..Len(tasks) : TcpWriteFail(t)

Spec == InitServer /\ [][Next]_vars

----------------------------------------------------------------------------
(* Claims on construct_reply. *)

Replied == rpc \in {"replied", "replied_again"}

\* the query of a first call that was not declined
Answered == rpc = "replied" /\ ~query.val.header.response

\* C4: construct_reply returns no reply exactly for the messages whose
\* response bit is set, so none for a reply it produced itself.
C4_ResponseBit ==
    /\ Replied => (reply.some <=> ~query.val.header.response)
    /\ rpc = "replied_again" => ~reply.some

\* a reply with answers was handed back to construct_reply
C4_Witness ==
    /\ rpc = "replied_again"
    /\ query.val.header.rcode = "NoError"
    /\ query.val.answers # <<>>
    /\ ~reply.some

\* C5: zero questions, or two or more, give NotImp with no answers, and
\* find_record is not called, whatever the questions are.
C5_NotImp ==
    (Answered /\ Len(query.val.questions) # 1) =>
        /\ reply.some
        /\ reply.val.header.rcode = "NotImp"
        /\ reply.val.answers = <<>>
        /\ reply.val.header.an_count = 0
        /\ calls = <<>>

\* two questions, the first an Internet-class one the store has records for
C5_Witness ==
    /\ Answered
    /\ Len(query.val.questions) = 2
    /\ query.val.questions[1].qclass = ClassIN
    /\ find_record(config, query.val.questions[1].qname,
                   query.val.questions[1].qtype).records # <<>>
    /\ reply.val.header.rcode = "NotImp"

\* C6: one question of a class other than Internet gives Refused with no
\* answers, also when the store holds records of that name and kind.
C6_Refused ==
    (/\ Answered
     /\ Len(query.val.questions) = 1
     /\ query.val.questions[1].qclass # ClassIN) =>
        /\ reply.some
        /\ reply.val.header.rcode = "Refused"
        /\ reply.val.answers = <<>>
        /\ reply.val.header.an_count = 0

C6_Witness ==
    /\ Answered
    /\ Len(query.val.questions) = 1
    /\ query.val.questions[1].qclass # ClassIN
    /\ find_record(config, query.val.questions[1].qname,
                   query.val.questions[1].qtype).records # <<>>
    /\ reply.val.header.rcode = "Refused"

\* C7: one Internet-class question: NXDomain and no answers when
\* find_record returns no record, else NoError and one answer per returned
\* record, in order, with the question's name, kind and class, the
\* looked-up TTL and the record's data.
C7_Lookup ==
    (/\ Answered
     /\ Len(query.val.questions) = 1
     /\ query.val.questions[1].qclass = ClassIN) =>
        LET q  == query.val.questions[1]
            fr == find_record(config, q.qname, q.qtype)
            r  == reply.val
        IN  /\ reply.some
            /\ calls = << <<q.qname, q.qtype>> >>
            /\ IF fr.records = <<>>
               THEN r.header.rcode = "NXDomain" /\ r.answers = <<>>
               ELSE /\ r.header.rcode = "NoError"
                    /\ Len(r.answers) = Len(fr.records)
                    /\ \A i \in 1..Len(fr.records) :
                         /\ r.answers[i].name = q.qname
                         /\ r.answers[i].rtype = q.qtype
                         /\ r.answers[i].rclass = q.qclass
                         /\ r.answers[i].ttl = fr.ttl
                         /\ r.answers[i].rdata = fr.records[i].rdata

\* two answers with different data, stamped with a zone's TTL override
C7_Witness ==
    /\ Answered
    /\ reply.val.header.rcode = "NoError"
    /\ Len(reply.val.answers) = 2
    /\ reply.val.answers[1].rdata # reply.val.answers[2].rdata
    /\ reply.val.answers[1].ttl # DEFAULT_TTL

\* C8: the header, the tail and the questions of every reply.
C8_ReplyShape ==
    (Replied /\ reply.some) =>
        LET h == query.val.header
            r == reply.val
        IN  /\ r.header.transaction_id = h.transaction_id
            /\ r.header.response
            /\ r.header.opcode = h.opcode
            /\ r.header.recursion_desired = h.recursion_desired
            /\ ~r.header.authoritative_answer
            /\ ~r.header.truncation
            /\ ~r.header.recursion_available
            /\ ~r.header.reserved
            /\ ~r.header.authenticated_data
            /\ ~r.header.checking_disabled
            /\ r.header.ns_count = 0
            /\ r.header.ar_count = 0
            /\ r.unparsed = <<>>
            /\ r.questions = query.val.questions

\* the reply to a query that had every one of those bits set and a tail
C8_Witness ==
    /\ Answered
    /\ reply.some
    /\ query.val.header.authoritative_answer
    /\ query.val.header.checking_disabled
    /\ query.val.header.ns_count # 0
    /\ query.val.unparsed # <<>>
    /\ query.val.header.opcode = "STATUS"

----------------------------------------------------------------------------
(* Claims on find_record. *)

\* the zones of the store, by position, that hold a record of that name
Holders(cfg, domain) ==
    { i \in 1..Len(cfg) :
        \E k \in 1..Len(cfg[i].records) :
            combined_name(cfg[i].records[k], cfg[i].name) = domain }

MinOf(S) == CHOOSE x \in S : \A y \in S : x <= y

\* C9: the TTL find_record returns is the override (5 when unset) of the
\* first zone, in iteration order, that holds a record of the queried name,
\* and 5 when no zone holds one.
C9_FirstZoneTtl ==
    rpc = "found" =>
        LET holders == Holders(config, found.val.domain)
        IN  found.val.ttl =
              IF holders = {} THEN DEFAULT_TTL
              ELSE unwrap_or(config[MinOf(holders)].ttl, DEFAULT_TTL)

\* C10 as stated: an empty record list always comes with the default TTL.
C10_EmptyDefault ==
    (rpc = "found" /\ found.val.records = <<>>) => found.val.ttl = DEFAULT_TTL

\* C10 as amended: an empty record list comes with the default TTL when no
\* zone holds a record of the queried name, and otherwise with the override
\* (5 when unset) of a zone that holds one.
C10_EmptyTtl ==
    (rpc = "found" /\ found.val.records = <<>>) =>
        LET holders == Holders(config, found.val.domain)
        IN  IF holders = {} THEN found.val.ttl = DEFAULT_TTL
            ELSE found.val.ttl \in
                   { unwrap_or(config[i].ttl, DEFAULT_TTL) : i \in holders }

\* a name held by a zone with an override, with records of another kind only
C10_Witness ==
    /\ rpc = "found"
    /\ found.val.records = <<>>
    /\ Holders(config, found.val.domain) # {}
    /\ found.val.ttl = 7

----------------------------------------------------------------------------
(* Claims on serve. *)

\* the step in which join_next returns task t
JoinStep(t) == ~tasks[t].joined /\ tasks'[t].joined

ErrJoined(kind) ==
    \E t \in 1..Len(tasks) :
        tasks[t].kind = kind /\ tasks[t].joined /\ IsErr(tasks[t].result)

C3_FatalDatagram ==
    [][/\ \A t \in 1..Len(tasks) :
             (tasks[t].kind = "udp" /\ IsErr(tasks[t].result) /\ JoinStep(t))
             => spc' = "returned" /\ sresult' = tasks[t].result
       /\ spc = "returned"
             => /\ spc' = "returned" /\ sresult' = sresult
                /\ Len(tasks') = Len(tasks)
                /\ Len(conns') = Len(conns)
                /\ recv_buf' = recv_buf]_vars

\* a malformed datagram was received, its task failed to parse it, and serve
\* has returned that error
C3_Witness ==
    \E t \in 1..Len(tasks) :
        /\ tasks[t].kind = "udp" /\ tasks[t].joined
        /\ tasks[t].data = MalformedBytes /\ tasks[t].result = "err_parse"
        /\ spc = "returned" /\ sresult = "err_parse"

----------------------------------------------------------------------------
(* Claims on find_record. *)

\* the absolute name of record r of the zone named z, as the claim words it
AbsoluteName(z, r) == IF r.name = <<>> THEN z ELSE r.name \o <<DOT>> \o z

\* the records of zone i of the store, in source order, whose absolute name
\* is d and whose kind is k
Selected(cfg, i, d, k) ==
    SelectSeq(cfg[i].records,
              LAMBDA r : AbsoluteName(cfg[i].name, r) = d /\ r.record_type = k)

RECURSIVE SelectedUpTo(_, _, _, _)
SelectedUpTo(cfg, n, d, k) ==
    IF n = 0 THEN <<>>
    ELSE SelectedUpTo(cfg, n - 1, d, k) \o Selected(cfg, n, d, k)

\* C11: find_record(name, kind) returns exactly the records whose absolute
\* name equals the queried name and whose kind equals the queried kind, zone
\* after zone, in the source order of each zone.
C11_ExactMatch ==
    rpc = "found" =>
        found.val.records =
            SelectedUpTo(config, Len(config), found.val.domain,
                         found.val.record_type)

\* record `a` of zone `b` is returned for `a.b` together with a second record
\* of the name, while a record of the zone's own name is left out
C11_Witness ==
    /\ rpc = "found"
    /\ found.val.domain = NameAB
    /\ Len(found.val.records) = 1
    /\ found.val.records[1].name = <<97>>
    /\ \E i \in 1..Len(config) :
         /\ config[i].name = NameB
         /\ Len(config[i].records) = 2
         /\ config[i].records[1].name = <<>>
         /\ config[i].records[1].record_type = found.val.record_type

----------------------------------------------------------------------------
(* SpecWire: a store, a query on the wire; the query is parsed, answered,   *)
(* the reply is serialized and parsed back (tests/example_query.rs:113-130). *)

TypeCNAME == Type_parse(5)

TypeAAAA == Type_parse(28)

\* NS targets as tests/example_query.rs writes them, with and without the
\* trailing dot
WireRecordUniverse ==
    { [name |-> <<97>>, record_type |-> TypeA,
       rdata |-> [tag |-> "A", data |-> Ip4]],
      [name |-> <<97>>, record_type |-> TypeAAAA,
       rdata |-> [tag |-> "AAAA", data |-> Ip6]],
      [name |-> <<>>, record_type |-> TypeNS,
       rdata |-> [tag |-> "NS", data |-> <<110, DOT, 98>>]],
      [name |-> <<>>, record_type |-> TypeNS,
       rdata |-> [tag |-> "NS", data |-> <<110, DOT, 98, DOT>>]],
      [name |-> <<97>>, record_type |-> TypeCNAME,
       rdata |-> [tag |-> "CNAME", data |-> <<99, DOT, 98>>]] }

MaxWireRecords == 2

WireStores ==
    { << [name |-> NameB, ttl |-> t, records |-> r] >> :
        t \in {NoTtl, Some(7)},
        r \in SeqsUpTo(WireRecordUniverse, MaxWireRecords) }

\* byte 2 of the header: a query, a response, a query with opcode 4
WireQueryByte2s == {1, 129, 33}

\* the root name, "b", "a.b"
WireQueryNames == { <<0>>, <<1, 98, 0>>, <<1, 97, 1, 98, 0>> }

WireQueries ==
    { WireHeader(29982, b2, 0, 1, 0, 0, 0) \o WireQuestion(nm, t, c) :
        b2 \in WireQueryByte2s, nm \in WireQueryNames,
        t \in {1, 2, 5, 28, 99}, c \in {1, 3} }
    \cup { WireHeader(29982, 1, 0, Len(qs), 0, 0, 1) \o Concat(qs) \o <<0, 0, 41>> :
             qs \in SeqsUpTo({WireQuestion(<<1, 97, 1, 98, 0>>, 1, 1),
                              WireQuestion(<<1, 98, 0>>, 2, 1)}, 2) }

\* list lengths below, at and above what a u16 count holds
ListLengths == {0, 1, 65535, 65536, 131071}

InitWire ==
    /\ config \in WireStores
    /\ cdata \in WireQueries
    /\ cres = Err("none")
    /\ cout = <<>>
    /\ cpc = "input"
    /\ query = None
    /\ reply = None
    /\ calls = <<>>
    /\ found = None
    /\ rpc = "off"
    /\ ServerIdle

\* lib.rs:88-91: the parsed query is handed to construct_reply
WireReply ==
    /\ cpc = "parsed"
    /\ cres.ok
    /\ query' = Some(cres.val)
    /\ reply' = construct_reply(config, cres.val)
    /\ cpc' = "replied"
    /\ UNCHANGED <<cdata, cres, cout, config, calls, found, rpc>>
    /\ UNCHANGED serverVars

\* lib.rs:93, lib.rs:125: reply.serialize()
WireSerialize ==
    /\ cpc = "replied"
    /\ reply.some
    /\ cout' = DnsPacket_serialize(reply.val)
    /\ cpc' = "sent"
    /\ UNCHANGED <<cdata, cres, config, query, reply, calls, found, rpc>>
    /\ UNCHANGED serverVars

\* tests/example_query.rs:127: the reply bytes are parsed back
WireReparse ==
    /\ cpc = "sent"
    /\ cres' = parse_dns_query(cout)
    /\ cpc' = "reparsed"
    /\ UNCHANGED <<cdata, cout, config, query, reply, calls, found, rpc>>
    /\ UNCHANGED serverVars

\* lib.rs:59-75: the reply header built for lists of nq questions and na
\* answers
ReplyCounts ==
    /\ cpc = "parsed"
    /\ cres.ok
    /\ \E nq \in ListLengths, na \in ListLengths :
         found' = Some([nq |-> nq, na |-> na,
                        header |-> ReplyHeader(cres.val.header, "NoError", nq, na)])
    /\ cpc' = "counted"
    /\ UNCHANGED <<cdata, cres, cout, config, query, reply, calls, rpc>>
    /\ UNCHANGED serverVars

NextWire == Parse \/ WireReply \/ WireSerialize \/ WireReparse \/ ReplyCounts

SpecWire == InitWire /\ [][NextWire]_vars

\* C12: every reply that construct_reply returns serializes to bytes that
\* parse_dns_query decodes, and the decoded packet equals the reply.
C12_ReplyRoundTrip ==
    cpc = "reparsed" => cres.ok /\ cres.val = reply.val

----------------------------------------------------------------------------
(* Claims on the codec. *)

\* C13: a label length byte with either of its two top bits set, in the
\* name of a question, in the owner name of an answer or in the name of
\* NS/CNAME record data, makes parse_dns_query fail with the compression
\* error; the byte is not skipped and not taken as a label length.
C13_PointerRejected ==
    (cpc = "parsed" /\ cdata \in PointerInputs) =>
        ~cres.ok /\ cres.err = "compression"

\* the length byte 64 in CNAME record data, followed by 64 bytes and a
\* terminator, has been rejected
C13_Witness ==
    /\ cpc = "parsed"
    /\ cdata = WireHeader(29982, 129, 128, 0, 1, 0, 0)
               \o WireAnswer(<<1, 97, 0>>, 5, 1, 5, Len(PointerName(<<1, 97>>, 64)),
                             PointerName(<<1, 97>>, 64))
    /\ ~cres.ok

\* C14: a buffer of at least 12 bytes fails to decode as a header exactly
\* when bit 6 of its fourth byte, the reserved bit, is set.
C14_ReservedBit ==
    (cpc = "parsed" /\ cdata \in HeaderInputs) =>
        (cres.ok <=> Bit(cdata[4], 6) = 0)

\* C15: serializing the header decoded from 12 accepted bytes gives the same
\* 12 bytes, and every decoded flag equals its own bit of the input.
C15_HeaderInverse ==
    (cpc = "serialized" /\ cdata \in HeaderInputs) =>
        /\ Take(cout, 12) = Take(cdata, 12)
        /\ LET h == cres.val.header
           IN  /\ h.response = (Bit(cdata[3], 7) = 1)
               /\ h.authoritative_answer = (Bit(cdata[3], 2) = 1)
               /\ h.truncation = (Bit(cdata[3], 1) = 1)
               /\ h.recursion_desired = (Bit(cdata[3], 0) = 1)
               /\ h.recursion_available = (Bit(cdata[4], 7) = 1)
               /\ h.reserved = (Bit(cdata[4], 6) = 1)
               /\ h.authenticated_data = (Bit(cdata[4], 5) = 1)
               /\ h.checking_disabled = (Bit(cdata[4], 4) = 1)

----------------------------------------------------------------------------
(* Claims on process_tcp and process_udp. *)

\* task t is at a length prefix, its peer has closed, no byte is left
AtBoundaryEof(t) ==
    /\ tasks[t].kind = "tcp" /\ tasks[t].result = "running"
    /\ tasks[t].pc = "read_len"
    /\ conns[tasks[t].conn].closed
    /\ conns[tasks[t].conn].inbox = <<>>

\* C16: when the peer has closed the stream at a frame boundary, the step
\* the connection's task takes ends it with success, and the step in which
\* the top-level loop observes that completion leaves serve running.
C16_CleanClose ==
    [][\A t \in 1..Len(tasks) :
          /\ (AtBoundaryEof(t) /\ tasks'[t] # tasks[t] /\ spc' = "running")
                => tasks'[t].result = "ok"
          /\ (tasks[t].kind = "tcp" /\ tasks[t].result = "ok" /\ JoinStep(t))
                => spc' = "running" /\ sresult' = "none"]_vars

\* a connection that carried one frame and its reply was closed, its task
\* ended with success, serve observed it and runs on
C16_Witness ==
    \E t \in 1..Len(tasks) :
        /\ tasks[t].kind = "tcp" /\ tasks[t].result = "ok" /\ tasks[t].joined
        /\ conns[tasks[t].conn].closed
        /\ conns[tasks[t].conn].outbox # <<>>
        /\ conns[tasks[t].conn].chunks = 1
        /\ spc = "running"

\* C17: every datagram sent is the reply to a received datagram that parsed
\* and had its response bit clear, goes to that datagram's sender, carries
\* its transaction id, and is the only one sent for it.
C17_UdpReplies ==
    \A i \in 1..Len(udp_sent) :
        LET t      == udp_sent[i].task
            parsed == parse_dns_query(tasks[t].data)
        IN  /\ tasks[t].kind = "udp"
            /\ parsed.ok
            /\ ~parsed.val.header.response
            /\ udp_sent[i].to = tasks[t].peer
            /\ Take(udp_sent[i].bytes, 2) = Take(tasks[t].data, 2)
            /\ \A j \in 1..Len(udp_sent) : udp_sent[j].task = t => j = i

\* a query was received and answered with one datagram
C17_Witness ==
    /\ Len(udp_sent) = 1
    /\ \E t \in 1..Len(tasks) :
         tasks[t].kind = "udp" /\ tasks[t].data = QueryBytes /\ tasks[t].result = "ok"

----------------------------------------------------------------------------
(* Claims on counts. *)

CountsMatch(p) ==
    /\ p.header.qd_count = Len(p.questions)
    /\ p.header.an_count = Len(p.answers)

\* C18: the question and answer counts of every packet parse_dns_query
\* returns and of every reply construct_reply returns equal the lengths of
\* its lists; the header built for a list of more than 65535 entries counts
\* 65535.
C18_Counts ==
    /\ (cpc \in {"parsed", "replied", "sent", "reparsed", "counted"} /\ cres.ok)
          => CountsMatch(cres.val)
    /\ (cpc \in {"replied", "sent", "reparsed"} /\ reply.some)
          => CountsMatch(reply.val)
    /\ cpc = "counted"
          => /\ found.val.header.qd_count =
                    IF found.val.nq > 65535 THEN 65535 ELSE found.val.nq
             /\ found.val.header.an_count =
                    IF found.val.na > 65535 THEN 65535 ELSE found.val.na

\* the header for 65536 questions and 131071 answers counts 65535 of each
C18_Witness ==
    /\ cpc = "counted"
    /\ found.val.nq = 65536 /\ found.val.na = 131071
    /\ found.val.header.qd_count = 65535 /\ found.val.header.an_count = 65535

----------------------------------------------------------------------------
(* SpecName: a buffer is decoded as a name, the name is encoded again. *)

MaxNameLen == 4

\* terminator, label lengths 1 and 2, '.', 'a', a length with a top bit set
NameBytes == {0, 1, 2, DOT, 97, 64}

NameInputs == SeqsUpTo(NameBytes, MaxNameLen)

InitName ==
    /\ cdata \in NameInputs
    /\ cres = Err("none")
    /\ cout = <<>>
    /\ cpc = "input"
    /\ ReplyIdle
    /\ ServerIdle

ParseName ==
    /\ cpc = "input"
    /\ cres' = parse_dns_name(cdata)
    /\ cpc' = "parsed"
    /\ UNCHANGED <<cdata, cout>>
    /\ UNCHANGED <<replyVars, serverVars>>

SerializeName ==
    /\ cpc = "parsed"
    /\ cres.ok
    /\ cout' = serialize_dns_name(cres.val)
    /\ cpc' = "serialized"
    /\ UNCHANGED <<cdata, cres>>
    /\ UNCHANGED <<replyVars, serverVars>>

NextName == ParseName \/ SerializeName

SpecName == InitName /\ [][NextName]_vars

\* the bytes of the buffer that the decoder consumed
Consumed == Take(cdata, Len(cdata) - Len(cres.rest))

\* no leading dot, no trailing dot, no two dots in a row
NoEmptyLabel(name) ==
    name = <<>> \/
        /\ name[1] # DOT
        /\ name[Len(name)] # DOT
        /\ \A i \in 1..(Len(name) - 1) : ~(name[i] = DOT /\ name[i + 1] = DOT)

\* C20: encoding the string decoded from an accepted wire name gives the
\* bytes that were consumed, and the string has no empty label and no
\* trailing dot.
C20_NameInverse ==
    cpc = "serialized" => cout = Consumed /\ NoEmptyLabel(cres.val)

----------------------------------------------------------------------------
(* SpecStream: one accepted connection whose peer has written its frames    *)
(* and closed; the store holds records with long targets for one name, so   *)
(* that a reply can be longer than a 2-byte prefix counts.                  *)

BigRecords == 22

BigTargetLen == 3000

MaxFrames == 2

\* a CNAME target of one long label; the store takes any string
BigTarget == [i \in 1..BigTargetLen |-> 97]

\* the records of the serving store, and BigRecords CNAME records for `a.b`
BigConfig ==
    << [name    |-> NameB,
        ttl     |-> Some(7),
        records |-> ServerConfig[1].records
                    \o [i \in 1..BigRecords |->
                           [name |-> <<97>>, record_type |-> TypeCNAME,
                            rdata |-> [tag |-> "CNAME", data |-> BigTarget]]]] >>

BigQueryBytes ==
    DnsPacket_serialize(CleanQuery(FALSE, "QUERY",
        << [qname |-> NameAB, qtype |-> TypeCNAME, qclass |-> ClassIN] >>))

StreamFrames ==
    { Frame(d) : d \in {QueryBytes, ResponseBytes, MalformedBytes, BigQueryBytes} }

\* what follows the last whole frame: nothing, half a length prefix, a
\* length prefix of 5 with two bytes of body
StreamTails == { <<>>, <<0>>, <<0, 5, 1, 2>> }

StreamInputs ==
    { Concat(fs) \o tl : fs \in SeqsUpTo(StreamFrames, MaxFrames), tl \in StreamTails }

InitStream ==
    /\ spc = "running"
    /\ sresult = "none"
    /\ recv_buf = [i \in 1..RecvBufLen |-> 0]
    /\ tasks = << NewTask("tcp", "p1", 1, <<>>) >>
    /\ \E bytes \in StreamInputs :
         conns = << [peer |-> "p1", inbox |-> bytes, closed |-> TRUE,
                     chunks |-> 0, outbox |-> <<>>, wrote |-> bytes] >>
    /\ udp_sent = <<>>
    /\ udp_recv = <<>>
    /\ config = BigConfig
    /\ query = None
    /\ reply = None
    /\ calls = <<>>
    /\ found = None
    /\ rpc = "off"
    /\ CodecIdle

NextStream ==
    \/ \E t \in 1..Len(tasks) : JoinNext(t)
    \/ \E t \in 1..Len(tasks) : TcpReadLen(t)
    \/ \E t \in 1..Len(tasks) : TcpReadLenEof(t)
    \/ \E t \in 1..Len(tasks) : TcpReadBody(t)
    \/ \E t \in 1..Len(tasks) : TcpReadBodyEof(t)
    \/ \E t \in 1..Len(tasks) : TcpWriteLen(t)
    \/ \E t \in 1..Len(tasks) : TcpWriteBody(t)
    \/ \E t \in 1..Len(tasks) : TcpWriteFail(t)

SpecStream == InitStream /\ [][NextStream]_vars

\* the last n bytes of a buffer
LastBytes(buf, n) == Drop(buf, Len(buf) - n)

\* C19: the 2-byte big-endian prefix written before a reply on a stream
\* equals the number of reply bytes written after it.
C19_ReplyPrefix ==
    \A t \in 1..Len(tasks) :
        (tasks[t].kind = "tcp" /\ tasks[t].pc = "write_body") =>
            get_u16(LastBytes(conns[tasks[t].conn].outbox, 2)) = Len(tasks[t].out)

----------------------------------------------------------------------------
(* Claims on the zone filter of find_record. *)

\* zone name z is a label-aligned parent of (or equal to) the name d
Aligned(z, d) == z = d \/ ends_with(d, <<DOT>> \o z)

\* the zones of the store, by position, that pass `domain.ends_with(zone)`
\* although their name is not a label-aligned parent of the queried name
Misaligned(cfg, d) ==
    { i \in 1..Len(cfg) : ends_with(d, cfg[i].name) /\ ~Aligned(cfg[i].name, d) }

\* the store with zone i taken out
WithoutZone(cfg, i) == SubSeq(cfg, 1, i - 1) \o SubSeq(cfg, i + 1, Len(cfg))

\* what find_record returns on the store with zone i taken out
FoundWithout(i) ==
    Some([domain |-> found.val.domain, record_type |-> found.val.record_type,
          records |-> find_record(WithoutZone(config, i), found.val.domain,
                                  found.val.record_type).records,
          ttl |-> find_record(WithoutZone(config, i), found.val.domain,
                              found.val.record_type).ttl])

\* C21 as stated: when the store has zones whose name is a byte suffix of the
\* queried name without being a label-aligned parent of it, one of them gives
\* the lookup a record or its TTL, so the result is not the one of the store
\* without that zone.
C21_SuffixMatch ==
    (rpc = "found" /\ Misaligned(config, found.val.domain) # {}) =>
        \E i \in Misaligned(config, found.val.domain) : FoundWithout(i) # found

\* C21 as amended: a zone whose name is a byte suffix of the queried name
\* without being a label-aligned parent of it passes the filter and gives the
\* lookup nothing: records and TTL are those of the store without that zone.
C21_AlignedOnly ==
    rpc = "found" =>
        \A i \in Misaligned(config, found.val.domain) : FoundWithout(i) = found

\* zone `b` with TTL 7 and a record `a` of the queried kind, looked up for
\* `ab`: no record and the default TTL
C21_Witness ==
    /\ rpc = "found"
    /\ found.val.domain = NameAb
    /\ found.val.records = <<>>
    /\ found.val.ttl = DEFAULT_TTL
    /\ \E i \in Misaligned(config, NameAb) :
         /\ config[i].name = NameB
         /\ config[i].ttl = Some(7)
         /\ \E k \in 1..Len(config[i].records) :
              /\ config[i].records[k].name = <<97>>
              /\ config[i].records[k].record_type = found.val.record_type

----------------------------------------------------------------------------
(* Claims on cancellation. *)

\* C22 as stated: no step stops a unit of work that is still running, neither
\* the step in which serve returns the error of another unit nor any other.
C22_NoCancellation ==
    [][\A t \in 1..Len(tasks) :
          tasks[t].result = "running" => tasks'[t].result # "aborted"]_vars

\* C22 as amended: a unit of work that is still running is stopped exactly in
\* the step in which serve returns (on the error of a unit it has joined or
\* of a socket); every other step leaves it running or is its own step.
C22_AbortOnReturn ==
    [][\A t \in 1..Len(tasks) :
          tasks[t].result = "running"
          => (tasks'[t].result = "aborted" <=> spc' = "returned")]_vars

\* a malformed datagram ended its task with a parse error, serve returned it,
\* and the task of a connection that had read a length prefix of 5 and was
\* waiting for the body was aborted
C22_Witness ==
    /\ spc = "returned" /\ sresult = "err_parse"
    /\ \E t, u \in 1..Len(tasks) :
         /\ tasks[t].kind = "udp" /\ tasks[t].joined /\ tasks[t].result = "err_parse"
         /\ tasks[u].kind = "tcp" /\ tasks[u].result = "aborted"
         /\ tasks[u].pc = "read_body" /\ tasks[u].length = 5
         /\ ~conns[tasks[u].conn].closed

----------------------------------------------------------------------------
(* SpecUdp: serve with datagrams only, several of them outstanding.         *)

\* the number of datagrams that arrive
MaxBurst == 2

NextUdp ==
    \/ \E t \in 1..Len(tasks) : JoinNext(t)
    \/ \E d \in Datagrams, peer \in Peers : RecvUpTo(d, peer, MaxBurst)
    \/ SocketFail
    \/ \E t \in 1..Len(tasks) : UdpHandle(t)
    \/ \E t \in 1..Len(tasks) : UdpSend(t)
    \/ \E t \in 1..Len(tasks) : UdpSendFail(t)

SpecUdp == InitServer /\ [][NextUdp]_vars

\* the position, among the datagrams that arrived, of the one that spawned
\* the datagram task t
UdpOrdinal(t) == Cardinality({ u \in 1..t : tasks[u].kind = "udp" })

\* the reply bytes process_udp sends for the datagram b
ReplyBytes(b) ==
    DnsPacket_serialize(construct_reply(config, parse_dns_query(b).val).val)

\* C23: whatever arrived in the receive buffer since, the bytes a datagram
\* task holds and parses are those of the datagram that spawned it, its
\* outcome is the outcome for those bytes, and what it sends is the reply to
\* them, sent to that datagram's sender.
C23_PrivateBuffers ==
    /\ \A t \in 1..Len(tasks) :
         tasks[t].kind = "udp" =>
            /\ tasks[t].data = udp_recv[UdpOrdinal(t)].bytes
            /\ tasks[t].peer = udp_recv[UdpOrdinal(t)].from
            /\ tasks[t].result = "err_parse"
                  <=> (tasks[t].pc = "done"
                       /\ ~parse_dns_query(udp_recv[UdpOrdinal(t)].bytes).ok)
            /\ tasks[t].pc = "send"
                  => tasks[t].out = ReplyBytes(udp_recv[UdpOrdinal(t)].bytes)
    /\ \A i \in 1..Len(udp_sent) :
         /\ udp_sent[i].to = udp_recv[UdpOrdinal(udp_sent[i].task)].from
         /\ udp_sent[i].bytes = ReplyBytes(udp_recv[UdpOrdinal(udp_sent[i].task)].bytes)

\* the query of p1 was answered to p1 while the receive buffer already held
\* the malformed datagram of p2, whose task has not run yet
C23_Witness ==
    /\ Len(tasks) >= 2
    /\ tasks[1].data = QueryBytes /\ tasks[1].peer = "p1"
    /\ tasks[2].data = MalformedBytes /\ tasks[2].peer = "p2"
    /\ tasks[2].pc = "start" /\ tasks[2].result = "running"
    /\ Take(recv_buf, Len(MalformedBytes)) = MalformedBytes
    /\ Len(udp_sent) = 1
    /\ udp_sent[1].task = 1 /\ udp_sent[1].to = "p1"

----------------------------------------------------------------------------
(* Claims on the totality of the parser. *)

\* C24: for every buffer parse_dns_query returns a packet or a ParseError;
\* no read of the header, of a label, of a question's kind and class, of an
\* answer's fixed fields or of its record data goes past the end of the
\* buffer, and what a returned packet holds was taken from the buffer.
C24_ParserTotal ==
    cpc = "parsed" =>
        /\ cres.err # "panic"
        /\ cres.ok <=> cres.err = "none"
        /\ cres.ok => ends_with(cdata, cres.val.unparsed)

\* the buffer ends inside the record data of an answer whose fixed fields
\* are complete, and the parse is a ParseError
C24_Witness ==
    /\ cpc = "parsed"
    /\ cdata \in TruncatedInputs
    /\ cres.err = "rdata_short"

----------------------------------------------------------------------------
(* Claims on the end of a stream inside a length prefix. *)

\* task t is at a length prefix, its peer has closed after one byte of it
AtHalfPrefixEof(t) ==
    /\ tasks[t].kind = "tcp" /\ tasks[t].result = "running"
    /\ tasks[t].pc = "read_len"
    /\ conns[tasks[t].conn].closed
    /\ Len(conns[tasks[t].conn].inbox) = 1

\* C25: when the peer has closed the stream after the first byte of a length
\* prefix, the step the connection's task takes ends it with success and the
\* top-level loop runs on when it observes that; a task ends with an
\* unexpected end of stream only from inside a frame body.
C25_HalfPrefixClose ==
    [][\A t \in 1..Len(tasks) :
          /\ (AtHalfPrefixEof(t) /\ tasks'[t] # tasks[t] /\ spc' = "running")
                => tasks'[t].result = "ok"
          /\ (tasks[t].result = "running" /\ tasks'[t].result = "err_eof")
                => tasks[t].kind = "tcp" /\ tasks[t].pc = "read_body"
          /\ (tasks[t].kind = "tcp" /\ tasks[t].result = "ok" /\ JoinStep(t)
              /\ Len(conns[tasks[t].conn].wrote) = 1)
                => spc' = "running" /\ sresult' = "none"]_vars

\* the peer wrote one byte and closed; the task ended with success, serve
\* observed it and runs on
C25_Witness ==
    \E t \in 1..Len(tasks) :
        /\ tasks[t].kind = "tcp" /\ tasks[t].result = "ok" /\ tasks[t].joined
        /\ conns[tasks[t].conn].closed
        /\ conns[tasks[t].conn].wrote = <<0>>
        /\ conns[tasks[t].conn].outbox = <<>>
        /\ spc = "running"

----------------------------------------------------------------------------
(* Claims on the operation kind of a query. *)

\* the message with its operation kind replaced
WithOpcode(packet, op) == [packet EXCEPT !.header.opcode = op]

\* C26: the reply to a query with another operation kind is the same reply
\* with that operation kind copied: result code, questions and answers do not
\* depend on it.
C26_OpcodeIgnored ==
    Answered =>
        \A op \in OpCodes :
            construct_reply(config, WithOpcode(query.val, op))
                = Some(WithOpcode(reply.val, op))

\* an inverse query with one Internet-class question was answered from the
\* store
C26_Witness ==
    /\ Answered
    /\ query.val.header.opcode = "IQUERY"
    /\ Len(query.val.questions) = 1
    /\ reply.val.header.opcode = "IQUERY"
    /\ reply.val.header.rcode = "NoError"
    /\ reply.val.answers # <<>>

----------------------------------------------------------------------------
(* SpecLive: serve with several datagrams and a connection, the spawned     *)
(* tasks scheduled fairly.                                                  *)

\* the number of datagrams that arrive
MaxLiveDatagrams == 2

\* the number of writes of the peer of a connection
MaxLiveChunks == 1

LivePeers == {"p1"}

\* what process_udp does with each datagram of the model up to its await on
\* send_to (lib.rs:88-93), computed once for the store of the server: the
\* task with that datagram after UdpHandle
Polled ==
    [d \in Datagrams |->
        IF ~parse_dns_query(d).ok
        THEN [NewTask("udp", "p1", 0, d) EXCEPT !.result = "err_parse",
                                               !.pc = "done"]
        ELSE Return(Respond(NewTask("udp", "p1", 0, d),
                            construct_reply(ServerConfig, parse_dns_query(d).val),
                            "done", "send"))]

\* UdpHandle(t), the outcome read from Polled
UdpPoll(t) ==
    /\ Running(t) /\ tasks[t].kind = "udp" /\ tasks[t].pc = "start"
    /\ tasks[t].data \in Datagrams
    /\ config = ServerConfig
    /\ tasks' = [tasks EXCEPT ![t].pc = Polled[tasks[t].data].pc,
                              ![t].result = Polled[tasks[t].data].result,
                              ![t].out = Polled[tasks[t].data].out]
    /\ UNCHANGED <<spc, sresult, recv_buf, conns, udp_sent, udp_recv>>
    /\ ServerFrame

\* a step of the datagram task t: it is polled, or its send_to completes
UdpStep(t) ==
    /\ t \in 1..Len(tasks)
    /\ (UdpPoll(t) \/ UdpSend(t) \/ UdpSendFail(t))

\* a step of a datagram task read from Polled is the step of process_udp
PollIsHandle ==
    [][\A t \in 1..Len(tasks) : UdpPoll(t) <=> UdpHandle(t)]_vars

NextLive ==
    \/ \E t \in 1..Len(tasks) : JoinNext(t)
    \/ \E d \in Datagrams, peer \in LivePeers : RecvUpTo(d, peer, MaxLiveDatagrams)
    \/ SocketFail
    \/ \E peer \in LivePeers : Accept(peer)
    \/ \E c \in 1..Len(conns), chunk \in Chunks : PeerSendUpTo(c, chunk, MaxLiveChunks)
    \/ \E c \in 1..Len(conns) : PeerClose(c)
    \/ \E t \in 1..Len(tasks) : UdpHandle(t)
    \/ \E t \in 1..Len(tasks) : UdpSend(t)
    \/ \E t \in 1..Len(tasks) : UdpSendFail(t)
    \/ \E t \in 1..Len(tasks) : TcpReadLen(t)
    \/ \E t \in 1..Len(tasks) : TcpReadLenEof(t)
    \/ \E t \in 1..Len(tasks) : TcpReadFail(t)
    \/ \E t \in 1..Len(tasks) : TcpReadBody(t)
    \/ \E t \in 1..Len(tasks) : TcpReadBodyEof(t)
    \/ \E t \in 1..Len(tasks) : TcpWriteLen(t)
    \/ \E t \in 1..Len(tasks) : TcpWriteBody(t)
    \/ \E t \in 1..Len(tasks) : TcpWriteFail(t)

\* the runtime polls every spawned datagram task that can make a step, and
\* its send_to completes; nothing is assumed of the connection tasks
FairTasks ==
    \A t \in 1..(MaxLiveDatagrams + MaxConns) : WF_vars(UdpStep(t))

SpecLive == InitServer /\ [][NextLive]_vars /\ FairTasks

\* the k-th datagram that arrived parses and has its response bit clear
Answerable(k) ==
    /\ k <= Len(udp_recv)
    /\ parse_dns_query(udp_recv[k].bytes).ok
    /\ ~parse_dns_query(udp_recv[k].bytes).val.header.response

\* the datagrams sent by the task of the k-th datagram that arrived
RepliesTo(k) ==
    { i \in 1..Len(udp_sent) :
        /\ tasks[udp_sent[i].task].kind = "udp"
        /\ UdpOrdinal(udp_sent[i].task) = k }

AnsweredOnce(k) == Cardinality(RepliesTo(k)) = 1

\* no unit of work has ended in an error; once one has, it stays so
NoUnitError == \A t \in 1..Len(tasks) : ~IsErr(tasks[t].result)

\* no unit of work has ended in an error and serve has not returned; serve
\* does not resume once it has returned
NoError == NoUnitError /\ spc = "running"

AtMostOnce == \A k \in 1..MaxLiveDatagrams : Cardinality(RepliesTo(k)) <= 1

MaxOrderChunks == 3

\* a second query, for another record type, so that its reply differs
OtherQueryBytes ==
    DnsPacket_serialize(CleanQuery(FALSE, "QUERY",
        << [qname |-> NameAB, qtype |-> TypeAAAA, qclass |-> ClassIN] >>))

OrderChunks == Chunks \cup { Frame(OtherQueryBytes) }

InitOrder ==
    /\ spc = "running"
    /\ sresult = "none"
    /\ recv_buf = [i \in 1..RecvBufLen |-> 0]
    /\ tasks = << NewTask("tcp", "p1", 1, <<>>) >>
    /\ conns = << [peer |-> "p1", inbox |-> <<>>, closed |-> FALSE,
                   chunks |-> 0, outbox |-> <<>>, wrote |-> <<>>] >>
    /\ udp_sent = <<>>
    /\ udp_recv = <<>>
    /\ config = ServerConfig
    /\ query = None
    /\ reply = None
    /\ calls = <<>>
    /\ found = None
    /\ rpc = "off"
    /\ CodecIdle

NextOrder ==
    \/ \E t \in 1..Len(tasks) : JoinNext(t)
    \/ \E c \in 1..Len(conns), chunk \in OrderChunks :
          PeerSendUpTo(c, chunk, MaxOrderChunks)
    \/ \E c \in 1..Len(conns) : PeerClose(c)
    \/ \E t \in 1..Len(tasks) : TcpReadLen(t)
    \/ \E t \in 1..Len(tasks) : TcpReadLenEof(t)
    \/ \E t \in 1..Len(tasks) : TcpReadFail(t)
    \/ \E t \in 1..Len(tasks) : TcpReadBody(t)
    \/ \E t \in 1..Len(tasks) : TcpReadBodyEof(t)
    \/ \E t \in 1..Len(tasks) : TcpWriteLen(t)
    \/ \E t \in 1..Len(tasks) : TcpWriteBody(t)
    \/ \E t \in 1..Len(tasks) : TcpWriteFail(t)

SpecOrder == InitOrder /\ [][NextOrder]_vars

\* the whole frames at the front of a byte stream, cut as process_tcp cuts
\* them: a two-byte big-endian length, then that many bytes
RECURSIVE FramesOf(_)
FramesOf(bytes) ==
    IF Len(bytes) < 2 THEN <<>>
    ELSE IF Len(bytes) - 2 < get_u16(bytes) THEN <<>>
    ELSE <<SubSeq(bytes, 3, 2 + get_u16(bytes))>>
         \o FramesOf(Drop(bytes, 2 + get_u16(bytes)))

\* what process_tcp writes for one frame: nothing when the message is
\* declined, else the length prefix and the reply
FrameReply(b) ==
    IF construct_reply(config, parse_dns_query(b).val) = None THEN <<>>
    ELSE put_u16(Len(ReplyBytes(b)) % 65536) \o ReplyBytes(b)

\* what process_tcp writes for a sequence of frames: it stops at the first
\* frame that does not parse
RECURSIVE StreamReplies(_)
StreamReplies(frames) ==
    IF frames = <<>> THEN <<>>
    ELSE IF ~parse_dns_query(Head(frames)).ok THEN <<>>
    ELSE FrameReply(Head(frames)) \o StreamReplies(Tail(frames))

\* the bytes of the connection c that its task has read so far
ReadSoFar(c) == Take(conns[c].wrote, Len(conns[c].wrote) - Len(conns[c].inbox))

IsPrefix(p, s) == Len(p) <= Len(s) /\ Take(s, Len(p)) = p

\* the frames the task t has taken whole from its connection: at read_body
\* the two bytes read last are the prefix of the frame being read
ReadFrames(t) ==
    IF tasks[t].result = "running" /\ tasks[t].pc = "read_body"
    THEN FramesOf(Take(ReadSoFar(tasks[t].conn), Len(ReadSoFar(tasks[t].conn)) - 2))
    ELSE FramesOf(ReadSoFar(tasks[t].conn))

\* the written bytes are the start of the replies to the frames the peer
\* wrote, in arrival order; while a frame is being read the replies to all
\* the frames read before are whole, and each of those frames parsed; a
\* task that ended with a parse error read a frame that does not parse
InOrder(t) ==
    /\ IsPrefix(conns[tasks[t].conn].outbox,
                StreamReplies(FramesOf(conns[tasks[t].conn].wrote)))
    /\ (tasks[t].result = "running" /\ tasks[t].pc \in {"read_len", "read_body"})
        => /\ conns[tasks[t].conn].outbox = StreamReplies(ReadFrames(t))
           /\ \A k \in 1..Len(ReadFrames(t)) : parse_dns_query(ReadFrames(t)[k]).ok
    /\ tasks[t].result = "err_parse"
        => /\ ReadFrames(t) # <<>>
           /\ ~parse_dns_query(ReadFrames(t)[Len(ReadFrames(t))]).ok

\* the task t has the whole frame it is reading in front of it, and the
\* message in it has the response bit set
AtResponseFrame(t) ==
    /\ tasks[t].result = "running" /\ tasks[t].pc = "read_body"
    /\ Len(conns[tasks[t].conn].inbox) >= tasks[t].length
    /\ parse_dns_query(Take(conns[tasks[t].conn].inbox, tasks[t].length)).ok
    /\ parse_dns_query(Take(conns[tasks[t].conn].inbox, tasks[t].length)).val.header.response

\* C28: on one connection the bytes written are at every moment the start
\* of the replies to the peer's frames taken in arrival order, one whole
\* reply (prefix and body) after the other, and whenever the task is
\* reading a frame the replies to all the frames read before are completely
\* written; the step that takes a frame whose message has the response bit
\* set writes nothing and leaves the task running, about to read the next
\* length prefix.
C28_InOrder ==
    /\ [](\A t \in 1..Len(tasks) : tasks[t].kind = "tcp" => InOrder(t))
    /\ [][\A t \in 1..Len(tasks) :
            (/\ AtResponseFrame(t)
             /\ conns'[tasks[t].conn].wrote = conns[tasks[t].conn].wrote
             /\ conns'[tasks[t].conn].inbox # conns[tasks[t].conn].inbox)
                => /\ tasks'[t].result = "running"
                   /\ tasks'[t].pc = "read_len"
                   /\ conns'[tasks[t].conn].outbox = conns[tasks[t].conn].outbox
                   /\ conns'[tasks[t].conn].inbox =
                          Drop(conns[tasks[t].conn].inbox, tasks[t].length)]_vars

\* a frame with the response bit set between two different queries, the
\* second arriving while the first reply is being written: the task is
\* reading again and the connection carries the two replies, in the order
\* of the queries, and nothing for the frame in between
C28_Witness ==
    /\ Len(tasks) = 1 /\ tasks[1].kind = "tcp"
    /\ tasks[1].result = "running" /\ tasks[1].pc = "read_len"
    /\ conns[1].wrote = Frame(QueryBytes) \o Frame(ResponseBytes) \o Frame(OtherQueryBytes)
    /\ conns[1].inbox = <<>>
    /\ conns[1].outbox = FrameReply(QueryBytes) \o FrameReply(OtherQueryBytes)
    /\ FrameReply(ResponseBytes) = <<>>
    /\ FrameReply(QueryBytes) # FrameReply(OtherQueryBytes)

====
